---------------------------- MODULE Spec2Model ----------------------------
(***************************************************************************)
(* Verification model of forensiq: the response cache, the page chunker,   *)
(* graph population and the query orchestrator.  Each component has its    *)
(* own specification (SpecCache, SpecChunk, SpecGraph, SpecQuery) over the *)
(* shared variables; a component's actions leave the others unchanged.     *)
(***************************************************************************)
EXTENDS Integers, Sequences, FiniteSets, TLC

VARIABLES
    useRedis,   \* ResponseCache._redis is not None (decided at construction)
    redis,      \* the Redis key space under PREFIX: key -> None | <<[data, ttl]>>
    fallback,   \* ResponseCache._fallback: key -> None | <<entry>>
    ret,        \* the last cache call and what it returned
    mon,        \* monitor: per keyword set, the store/lookup history the contract speaks of
    cacheOps,   \* number of cache calls made so far
    ext,        \* the parsed extraction at the source path (parse_ufdr's result)
    pages,      \* the pages index_extraction built in the last ingest
    result,     \* the IngestResult of the last ingest
    calls,      \* the collaborator calls the last ingest made, in order
    source,     \* per source path, the pages its current content chunks into
    pageStore,  \* PageStore: extraction_id -> the pages saved by the last ingest
    nodes,      \* the graph's nodes, in creation order
    rels,       \* the graph's relationships, in creation order
    uuid,       \* number of page ids drawn so far (uuid4)
    gret,       \* the last ingest of the graph model: its number, source and stats
    ires,       \* the IngestResult of that ingest, and the failure it met
    dret,       \* the last delete_project: its number, its project and what it returned
    qr,         \* the QueryResult of the last query (raised: it ended in an exception)
    llmCalls,   \* the calls the last query made on ForensIQLLM, in order, with their outcome
    steps,      \* the steps the last query went through, each with how it ended
    reads,      \* the reads of the graph store the last query issued, in order
    queries,    \* number of queries made so far
    faiss,      \* FAISSStore: _index (the page of each row) and _page_ids
    ing,        \* the ingest in progress: its position, its pages, its next batch
    qry,        \* the query in progress: its position and its locals
    xpage,      \* the page handed to extract_entities
    xret,       \* what extract_entities and _infer_relationships returned for it
    attempts,   \* deps._attempts: per client IP, the times of the attempts recorded
    mono,       \* time.monotonic()
    admitted,   \* monitor: per IP and endpoint, the times of the calls let through
    rret,       \* the last check_rate_limit: its number, its caller and how it ended
    users,      \* db.users: email -> the user's document
    password_resets, \* db.password_resets, in insertion order
    reqs,       \* the reset_password calls in progress: per request, position and locals
    resetLog    \* monitor: the auth calls that returned, in order, with what they returned

cacheVars == <<useRedis, redis, fallback, ret, mon, cacheOps>>

chunkVars == <<ext, pages, result, calls>>

graphVars == <<source, pageStore, nodes, rels, uuid, gret, ires, dret>>

queryVars == <<qr, llmCalls, steps, reads, queries>>

concVars == <<faiss, ing, qry>>

extractVars == <<xpage, xret>>

rateVars == <<attempts, mono, admitted, rret>>

resetVars == <<users, password_resets, reqs, resetLog>>

auxVars == <<extractVars, rateVars, resetVars>>

coreVars == <<cacheVars, chunkVars, graphVars, queryVars, concVars>>

vars == <<coreVars, auxVars>>

\* An optional value is a sequence of length at most one.
None == <<>>

Some(v) == <<v>>

(***************************************************************************)
(* Response cache: src/forensiq/cache/redis_cache.py                       *)
(***************************************************************************)

\* Number of clock ticks an entry lives (ResponseCache._ttl, scaled down).
TtlTicks == 2
\* Number of cache calls in a run.
MaxCacheOps == 4

\* A prompt is a sequence of text pieces: words as typed, and "?" for
\* punctuation that _WORD_RE does not match.
Pieces == {"Who", "who", "called", "Bob", "bob", "emailed", "the", "x", "?"}

Prompts ==
    { <<"Who", "called", "Bob", "?">>,
      <<"x", "bob", "who", "called", "called">>,
      <<"Who", "emailed", "Bob", "?">>,
      <<"Who", "the", "?">> }

Responses == {"42", "43"}

\* str.lower() on one piece.
Lower(w) ==
    CASE w = "Who" -> "who"
      [] w = "Bob" -> "bob"
      [] OTHER -> w

\* The members of _STOP_WORDS that the pieces can produce.
STOP_WORDS == {"who", "the"}

\* _WORD_RE.findall: the pieces matching [a-z0-9+@._-]+ in text order.
FindWords(text) == SelectSeq(text, LAMBDA w : w # "?")

\* Python's order on the lowercase words (by code point).
Rank(w) ==
    CASE w = "bob" -> 1
      [] w = "called" -> 2
      [] w = "emailed" -> 3
      [] w = "the" -> 4
      [] w = "who" -> 5
      [] OTHER -> 6

RECURSIVE Sorted(_)
\* sorted(S) for a set of words.
Sorted(S) ==
    IF S = {} THEN <<>>
    ELSE LET m == CHOOSE a \in S : \A b \in S : Rank(a) <= Rank(b)
         IN  <<m>> \o Sorted(S \ {m})

\* A planted fault: the keywords are not lowercased.
extract_keywords_nolower(text) ==
    LET words == FindWords(text)
    IN  Sorted({words[i] : i \in {j \in DOMAIN words :
                    words[j] \notin STOP_WORDS /\ Len(words[j]) > 1}})

\* extract_keywords: lowercase, tokenize, drop stop words and one-character
\* words, deduplicate, sort.
extract_keywords(text) ==
    LET words == FindWords([i \in DOMAIN text |-> Lower(text[i])])
    IN  Sorted({words[i] : i \in {j \in DOMAIN words :
                    words[j] \notin STOP_WORDS /\ Len(words[j]) > 1}})

RECURSIVE JoinBar(_)
\* "|".join(keywords)
JoinBar(kw) ==
    IF Len(kw) = 0 THEN <<>>
    ELSE IF Len(kw) = 1 THEN kw
    ELSE <<Head(kw), "|">> \o JoinBar(Tail(kw))

\* cache_key: the digest of the joined keywords; SHA-256 is taken to be
\* collision free, so the digest stands for the string it was made from.
cache_key(keywords) == <<"sha256">> \o JoinBar(keywords)

\* PREFIX + cache_key(extract_keywords(prompt))
KeyOf(prompt) == <<"forensiq:cache:">> \o cache_key(extract_keywords(prompt))

Keys == {KeyOf(p) : p \in Prompts}

\* _get
CacheGet(key) ==
    IF useRedis
    THEN IF redis[key] # None THEN Some(redis[key][1].data) ELSE None
    ELSE fallback[key]

\* _set: SETEX with the ttl on Redis, a plain dict assignment otherwise.
CacheSet(key, data) ==
    IF useRedis
    THEN /\ redis' = [redis EXCEPT ![key] = Some([data |-> data, ttl |-> TtlTicks])]
         /\ UNCHANGED fallback
    ELSE /\ fallback' = [fallback EXCEPT ![key] = Some(data)]
         /\ UNCHANGED redis

\* _delete
CacheDelete(key) ==
    IF useRedis
    THEN /\ redis' = [redis EXCEPT ![key] = None]
         /\ UNCHANGED fallback
    ELSE /\ fallback' = [fallback EXCEPT ![key] = None]
         /\ UNCHANGED redis

\* The keyword set of a prompt as a set: what the monitor is indexed by.
KeywordSet(prompt) ==
    {Lower(prompt[i]) : i \in {j \in DOMAIN prompt :
        /\ prompt[j] # "?"
        /\ Lower(prompt[j]) \notin STOP_WORDS
        /\ Len(prompt[j]) > 1}}

KeywordSets == {KeywordSet(p) : p \in Prompts}

\* The monitor after store(prompt, response): a fresh history for the set.
MonStore(prompt, response) ==
    [mon EXCEPT ![KeywordSet(prompt)] = Some([prompt |-> prompt, response |-> response, n |-> 0, age |-> 0])]

\* The monitor after lookup(prompt): one more lookup since the store, and
\* the TTL restarts, while the history is younger than the TTL.
MonLookup(prompt) ==
    LET ks == KeywordSet(prompt)
    IN  IF mon[ks] # None /\ mon[ks][1].age < TtlTicks
        THEN [mon EXCEPT ![ks] = Some([@[1] EXCEPT !.n = @ + 1, !.age = 0])]
        ELSE mon

\* A planted fault: lookup returns the bumped entry without writing it back.
LookupNoWriteBack(prompt) ==
    LET keywords == extract_keywords(prompt)
        key == KeyOf(prompt)
        entry == CacheGet(key)
    IN  /\ cacheOps < MaxCacheOps
        /\ cacheOps' = cacheOps + 1
        /\ ret' = [op |-> "lookup", prompt |-> prompt,
                   result |-> IF keywords = <<>> \/ entry = None THEN None
                              ELSE Some([entry[1] EXCEPT !.hit_count = @ + 1])]
        /\ UNCHANGED <<redis, fallback>>
        /\ mon' = MonLookup(prompt)
        /\ UNCHANGED useRedis

\* ResponseCache.lookup
Lookup(prompt) ==
    LET keywords == extract_keywords(prompt)
        key == KeyOf(prompt)
        entry == CacheGet(key)
    IN  /\ cacheOps < MaxCacheOps
        /\ cacheOps' = cacheOps + 1
        /\ IF keywords = <<>>
           THEN /\ ret' = [op |-> "lookup", prompt |-> prompt, result |-> None]
                /\ UNCHANGED <<redis, fallback>>
           ELSE IF entry = None
           THEN /\ ret' = [op |-> "lookup", prompt |-> prompt, result |-> None]
                /\ UNCHANGED <<redis, fallback>>
           ELSE LET bumped == [entry[1] EXCEPT !.hit_count = @ + 1]
                IN  /\ CacheSet(key, bumped)
                    /\ ret' = [op |-> "lookup", prompt |-> prompt, result |-> Some(bumped)]
        /\ mon' = MonLookup(prompt)
        /\ UNCHANGED useRedis

\* ResponseCache.store (metadata is never passed by the pipeline): what the
\* call does to the cache.
StoreCall(prompt, response, rag_context_summary) ==
    LET keywords == extract_keywords(prompt)
        key == KeyOf(prompt)
        entry == [prompt |-> prompt, keywords |-> keywords, response |-> response,
                  rag_context_summary |-> rag_context_summary, hit_count |-> 0]
    IN  /\ CacheSet(key, entry)
        /\ ret' = [op |-> "store", prompt |-> prompt, result |-> Some(key)]
        /\ mon' = MonStore(prompt, response)
        /\ UNCHANGED useRedis

\* One call of ResponseCache.store.
Store(prompt, response, rag_context_summary) ==
    /\ cacheOps < MaxCacheOps
    /\ cacheOps' = cacheOps + 1
    /\ StoreCall(prompt, response, rag_context_summary)

\* lookup(prompt) ends in an exception of the Redis client: Redis is the
\* backend, the keywords are not empty, and the GET raises or, the entry
\* found, the SETEX of the bumped entry raises.
LookupRaises(prompt, get, set) ==
    /\ useRedis
    /\ extract_keywords(prompt) # <<>>
    /\ \/ get = "raise"
       \/ CacheGet(KeyOf(prompt)) # None /\ set = "raise"

\* store(...) ends in an exception of the Redis client: the SETEX raises.
StoreRaises(set) == useRedis /\ set = "raise"

\* A cache call that raised: nothing is written.
CacheRaised(op, prompt) ==
    /\ ret' = [op |-> op, prompt |-> prompt, result |-> None]
    /\ UNCHANGED <<useRedis, redis, fallback, mon>>

\* ResponseCache.invalidate
Invalidate(prompt) ==
    LET key == KeyOf(prompt)
    IN  /\ cacheOps < MaxCacheOps
        /\ cacheOps' = cacheOps + 1
        /\ CacheDelete(key)
        /\ ret' = [op |-> "invalidate", prompt |-> prompt,
                   result |-> Some(CacheGet(key) # None)]
        /\ mon' = [mon EXCEPT ![KeywordSet(prompt)] = None]
        /\ UNCHANGED useRedis

\* ResponseCache.flush_all
FlushAll ==
    /\ cacheOps < MaxCacheOps
    /\ cacheOps' = cacheOps + 1
    /\ redis' = IF useRedis THEN [k \in Keys |-> None] ELSE redis
    /\ fallback' = [k \in Keys |-> None]
    /\ ret' = [op |-> "flush_all", prompt |-> <<>>, result |-> None]
    /\ mon' = [ks \in KeywordSets |-> None]
    /\ UNCHANGED useRedis

\* One clock tick: Redis counts every key's TTL down and drops the keys that
\* reach zero; the in-process dict has no clock.
Tick ==
    /\ redis' = [k \in Keys |->
                    IF redis[k] = None THEN None
                    ELSE IF redis[k][1].ttl <= 1 THEN None
                    ELSE Some([redis[k][1] EXCEPT !.ttl = @ - 1])]
    /\ mon' = [ks \in KeywordSets |->
                    IF mon[ks] = None THEN None
                    ELSE IF mon[ks][1].age >= TtlTicks THEN mon[ks]
                    ELSE Some([mon[ks][1] EXCEPT !.age = @ + 1])]
    /\ UNCHANGED <<useRedis, fallback, ret, cacheOps>>

\* ResponseCache.__init__: Redis is used when the ping succeeds.
CacheIdle ==
    /\ useRedis = FALSE
    /\ redis = [k \in Keys |-> None]
    /\ fallback = [k \in Keys |-> None]
    /\ ret = [op |-> "init", prompt |-> <<>>, result |-> None]
    /\ mon = [ks \in KeywordSets |-> None]
    /\ cacheOps = 0

\* The cache on Redis right after the first call made on it, a
\* store(prompt, response, rag_context_summary).
CacheStored(prompt, response, rag_context_summary) ==
    /\ useRedis = TRUE
    /\ redis = [k \in Keys |->
                  IF k = KeyOf(prompt)
                  THEN Some([data |-> [prompt |-> prompt, keywords |-> extract_keywords(prompt),
                                       response |-> response,
                                       rag_context_summary |-> rag_context_summary,
                                       hit_count |-> 0],
                             ttl |-> TtlTicks])
                  ELSE None]
    /\ fallback = [k \in Keys |-> None]
    /\ ret = [op |-> "store", prompt |-> prompt, result |-> Some(KeyOf(prompt))]
    /\ mon = [ks \in KeywordSets |->
                  IF ks = KeywordSet(prompt)
                  THEN Some([prompt |-> prompt, response |-> response, n |-> 0, age |-> 0])
                  ELSE None]
    /\ cacheOps = 1

InitCache ==
    /\ useRedis \in BOOLEAN
    /\ redis = [k \in Keys |-> None]
    /\ fallback = [k \in Keys |-> None]
    /\ ret = [op |-> "init", prompt |-> <<>>, result |-> None]
    /\ mon = [ks \in KeywordSets |-> None]
    /\ cacheOps = 0




(***************************************************************************)
(* Page chunker: src/forensiq/pageindex/indexer.py, and the start of       *)
(* ForensIQPipeline.ingest: src/forensiq/orchestrator/pipeline.py          *)
(***************************************************************************)

\* settings.page_max_tokens, scaled down.
PageMaxTokens == 3
\* The largest token count of one serialised record.
MaxRecTokens == 4
\* The largest number of records in one extraction.
MaxRecords == 3

\* Two of the nine artefact groups of index_extraction, in its order; every
\* group goes through the same loop.
GroupOrder == <<"contact", "message">>

GroupNames == {GroupOrder[i] : i \in DOMAIN GroupOrder}

\* A serialised record: its place in its group and _token_count of its text.
Item(i, tc) == [idx |-> i, tc |-> tc]

\* The "\n\n" that joins the records of a page body.
Sep == [idx |-> 0, tc |-> 0]

RECURSIVE JoinItems(_)
\* "\n\n".join(current_lines)
JoinItems(lines) ==
    IF Len(lines) = 0 THEN <<>>
    ELSE IF Len(lines) = 1 THEN lines
    ELSE <<Head(lines), Sep>> \o JoinItems(Tail(lines))

\* _extraction_id: the digest of the source path (one source path here).
extraction_id(e) == <<"sha256", e.source_path>>

\* _flush inside _batch_into_pages: pages after flushing the buffer.
Flush(pgs, current_lines, current_tokens, page_num, artifact_type, ext_id) ==
    IF current_lines = <<>> THEN pgs
    ELSE Append(pgs, [extraction_id |-> ext_id,
                      artifact_type |-> artifact_type,
                      page_number |-> page_num,
                      body |-> JoinItems(current_lines),
                      token_count |-> current_tokens])

\* A planted fault: the buffer is flushed only once it is already over budget.
NeedsFlushLate(current_tokens, tc, max_tokens, current_lines) ==
    current_tokens > max_tokens /\ current_lines # <<>>

\* The flush test of _batch_into_pages' loop.
NeedsFlush(current_tokens, tc, max_tokens, current_lines) ==
    current_tokens + tc > max_tokens /\ current_lines # <<>>

\* A planted fault: the trailing _flush() is missing.
BatchEndNoFlush(pgs, current_lines, current_tokens, page_num, artifact_type, ext_id) ==
    pgs

\* The trailing _flush() of _batch_into_pages.
BatchEnd(pgs, current_lines, current_tokens, page_num, artifact_type, ext_id) ==
    Flush(pgs, current_lines, current_tokens, page_num, artifact_type, ext_id)

RECURSIVE BatchLoop(_, _, _, _, _, _, _, _, _)
\* The for loop of _batch_into_pages from item i on.
BatchLoop(items, i, pgs, current_lines, current_tokens, page_num, artifact_type, ext_id, max_tokens) ==
    IF i > Len(items)
    THEN BatchEnd(pgs, current_lines, current_tokens, page_num, artifact_type, ext_id)
    ELSE LET tc == items[i].tc
             fl == NeedsFlush(current_tokens, tc, max_tokens, current_lines)
         IN  BatchLoop(items, i + 1,
                 IF fl THEN Flush(pgs, current_lines, current_tokens, page_num,
                                  artifact_type, ext_id)
                       ELSE pgs,
                 IF fl THEN <<items[i]>> ELSE Append(current_lines, items[i]),
                 IF fl THEN tc ELSE current_tokens + tc,
                 IF fl THEN page_num + 1 ELSE page_num,
                 artifact_type, ext_id, max_tokens)

\* _batch_into_pages
batch_into_pages(items, artifact_type, ext_id, start_page, max_tokens) ==
    BatchLoop(items, 1, <<>>, <<>>, 0, start_page, artifact_type, ext_id, max_tokens)

\* _device_info_page: a page when any device field is set (device = token
\* count of the page body, 0 when no field is set), else none.
device_info_page(e, ext_id, page_num) ==
    IF e.device = 0 THEN <<>>
    ELSE <<[extraction_id |-> ext_id,
            artifact_type |-> "device_info",
            page_number |-> page_num,
            body |-> <<Item(1, e.device)>>,
            token_count |-> e.device]>>

RECURSIVE GroupsFrom(_, _, _, _)
\* The loop over _groups of index_extraction from group g on.
GroupsFrom(e, g, pgs, page_counter) ==
    IF g > Len(GroupOrder) THEN pgs
    ELSE LET items == e.groups[GroupOrder[g]]
             batch == batch_into_pages(items, GroupOrder[g], extraction_id(e),
                                       page_counter, PageMaxTokens)
         IN  IF items = <<>>
             THEN GroupsFrom(e, g + 1, pgs, page_counter)
             ELSE GroupsFrom(e, g + 1, pgs \o batch, page_counter + Len(batch))

\* index_extraction
index_extraction(e) ==
    LET dip == device_info_page(e, extraction_id(e), 1)
    IN  GroupsFrom(e, 1, dip, 1 + Len(dip))

\* UFDRExtraction.total_artifacts (other: the timeline and generic records,
\* which index_extraction does not page).
total_artifacts(e) ==
    Len(e.groups["contact"]) + Len(e.groups["message"]) + e.other

EmptyResult ==
    [extraction_id |-> <<>>, total_artifacts |-> 0, total_pages |-> 0, errors |-> <<>>]

\* A planted fault: ingest goes on when no page was built.
IngestNoEarlyReturn(skip_graph) ==
    LET pgs == index_extraction(ext)
    IN  /\ result = None
        /\ pages' = pgs
        /\ result' = Some([extraction_id |-> IF pgs = <<>> THEN <<>> ELSE pgs[1].extraction_id,
                           total_artifacts |-> total_artifacts(ext),
                           total_pages |-> Len(pgs),
                           errors |-> <<>>])
        /\ calls' = <<"save_pages", "index_pages">>
                        \o (IF skip_graph THEN <<>> ELSE <<"populate_graph">>)
        /\ UNCHANGED ext

\* ForensIQPipeline.ingest with every collaborator succeeding: parse, build
\* the pages, return early when there is none, else save, embed, populate.
Ingest(skip_graph) ==
    LET pgs == index_extraction(ext)
    IN  /\ result = None
        /\ pages' = pgs
        /\ IF pgs = <<>>
           THEN /\ result' = Some([extraction_id |-> <<>>,
                                   total_artifacts |-> total_artifacts(ext),
                                   total_pages |-> 0,
                                   errors |-> <<"No pages generated from extraction">>])
                /\ calls' = <<>>
           ELSE /\ result' = Some([extraction_id |-> pgs[1].extraction_id,
                                   total_artifacts |-> total_artifacts(ext),
                                   total_pages |-> Len(pgs),
                                   errors |-> <<>>])
                /\ calls' = <<"save_pages", "index_pages">>
                                \o (IF skip_graph THEN <<>> ELSE <<"populate_graph">>)
        /\ UNCHANGED ext

\* The source gains one record in a group (what parse_ufdr will return).
AddRecord(g, tc) ==
    /\ result = None
    /\ total_artifacts(ext) < MaxRecords
    /\ ext' = [ext EXCEPT !.groups[g] = Append(@, Item(Len(@) + 1, tc))]
    /\ UNCHANGED <<pages, result, calls>>

\* The source gains a timeline or generic record.
AddOther ==
    /\ result = None
    /\ total_artifacts(ext) < MaxRecords
    /\ ext' = [ext EXCEPT !.other = @ + 1]
    /\ UNCHANGED <<pages, result, calls>>

\* The source gains device fields whose page body counts tc tokens.
SetDevice(tc) ==
    /\ result = None
    /\ ext.device = 0
    /\ ext' = [ext EXCEPT !.device = tc]
    /\ UNCHANGED <<pages, result, calls>>

ChunkIdle ==
    /\ ext = [source_path |-> "/tmp/test.ufdr", device |-> 0,
              groups |-> [g \in GroupNames |-> <<>>], other |-> 0]
    /\ pages = <<>>
    /\ result = None
    /\ calls = <<>>



(***************************************************************************)
(* Graph population: src/backend/forensiq/graphrag/extractor.py and        *)
(* src/backend/forensiq/graphrag/neo4j_client.py                           *)
(***************************************************************************)

\* Number of ingests in a run.
MaxIngests == 3

Sources == {"/case/a.ufdr", "/case/b.ufdr"}

\* list_extractions(): the extraction directories, sorted.
SortedSources == <<"/case/a.ufdr", "/case/b.ufdr">>

\* _extraction_id of a source path.
ExtId(path) == <<"sha256", path>>

\* Lines of page bodies as _serialise_contact writes them.
LineAlice == [prefix |-> "Contact:", value |-> "Alice Smith"]

LinePhone1 == [prefix |-> "Phone(s):", value |-> "+1-555-0100"]

LinePhone1Spaced == [prefix |-> "Phone(s):", value |-> "+1 555 0100"]

LinePhone2 == [prefix |-> "Phone(s):", value |-> "+1-555-0199"]

LineOrg == [prefix |-> "Org:", value |-> "Acme Corp"]

LineBob == [prefix |-> "Contact:", value |-> "Bob Ray"]

\* A seven-digit number, an e-mail address and a record without a name.
LinePhoneShort == [prefix |-> "Phone(s):", value |-> "555-0100"]

LineEmail == [prefix |-> "Email(s):", value |-> "Alice@Example.com"]

LineNoName == [prefix |-> "Contact:", value |-> ""]

\* Lines of page bodies as _serialise_message writes them.
LineChat == [prefix |-> "CHAT_MESSAGE", value |-> "(outgoing)"]

LineFrom == [prefix |-> "From:", value |-> "Alice"]

LineTo == [prefix |-> "To:", value |-> "Bob"]

LineToTwo == [prefix |-> "To:", value |-> "Bob, +1-555-0199"]

LineApp == [prefix |-> "App:", value |-> "WhatsApp"]

LineText == [prefix |-> "Body:", value |-> "Check out https://example.com/docs for the report"]

\* Page bodies: a contact with a phone and an organisation, and contacts
\* with a phone only.
BodyAlice == <<LineAlice, LinePhone1, LineOrg>>

BodySpaced == <<LineBob, LinePhone1Spaced>>

BodyOther == <<LineAlice, LinePhone2>>

\* What a source can chunk into: the bodies of its contact pages, in order.
Contents == {<<BodyAlice, BodySpaced>>, <<BodySpaced>>, <<BodyOther>>, <<BodyOther, BodyAlice>>}

\* The characters of the values that hold a digit; the other values modelled
\* hold none, so that _PHONE_RE finds nothing in them.
PhoneText(value) ==
    CASE value = "+1-555-0100" -> <<"+", "1", "-", "5", "5", "5", "-", "0", "1", "0", "0">>
      [] value = "+1 555 0100" -> <<"+", "1", " ", "5", "5", "5", " ", "0", "1", "0", "0">>
      [] value = "+1-555-0199" -> <<"+", "1", "-", "5", "5", "5", "-", "0", "1", "9", "9">>
      [] value = "555-0100" -> <<"5", "5", "5", "-", "0", "1", "0", "0">>
      [] OTHER -> <<>>

Digit == {"0", "1", "2", "3", "4", "5", "6", "7", "8", "9"}

\* _PHONE_RE = (?:\+?\d[\d\-\s]{7,}\d) on a whole string.
PHONE_RE(s) ==
    LET t == IF s # <<>> /\ Head(s) = "+" THEN Tail(s) ELSE s
    IN  /\ Len(t) >= 9
        /\ t[1] \in Digit
        /\ t[Len(t)] \in Digit
        /\ \A i \in 2..(Len(t) - 1) : t[i] \in Digit \cup {"-", " "}

\* _PHONE_RE matches the whole value.
IsPhone(value) == PHONE_RE(PhoneText(value))

\* val.split(","), each part stripped.
Parts(value) ==
    IF value = "Bob, +1-555-0199" THEN <<"Bob", "+1-555-0199">> ELSE <<value>>

\* _EMAIL_RE.finditer on a value.
EmailsIn(value) == IF value = "Alice@Example.com" THEN <<value>> ELSE <<>>

\* _URL_RE.finditer on a value: from the scheme to the next white space.
UrlsIn(value) ==
    IF value = "Check out https://example.com/docs for the report"
    THEN <<"https://example.com/docs">>
    ELSE <<>>

\* re.sub(r"[\s\-]", "", raw)
StripPhone(raw) ==
    CASE raw = "+1-555-0100" -> "+15550100"
      [] raw = "+1 555 0100" -> "+15550100"
      [] raw = "+1-555-0199" -> "+15550199"
      [] OTHER -> raw

\* name.lower()
LowerName(name) ==
    CASE name = "Alice Smith" -> "alice smith"
      [] name = "Bob Ray" -> "bob ray"
      [] name = "Alice" -> "alice"
      [] name = "Bob" -> "bob"
      [] name = "WhatsApp" -> "whatsapp"
      [] name = "Alice@Example.com" -> "alice@example.com"
      [] OTHER -> name

\* _uid: the digest of the joined parts.
Uid(parts) == <<"sha256">> \o parts

\* SCHEMA_CONSTRAINTS: the property that is unique per label.
KeyField(label) ==
    CASE label = "Project" -> "project_id"
      [] label = "Page" -> "page_id"
      [] label = "PhoneNumber" -> "number"
      [] label = "Organization" -> "name"
      [] label \in {"EmailAddress", "URL"} -> "address"
      [] label = "App" -> "package"
      [] OTHER -> "uid"

RECURSIVE PhoneEntities(_)
\* extract_entities, the _PHONE_RE loop: the numbers of each line, which a
\* comma separates.
PhoneEntities(lines) ==
    IF lines = <<>> THEN <<>>
    ELSE LET found == SelectSeq(Parts(Head(lines).value), IsPhone)
         IN  [i \in DOMAIN found |->
                 [label |-> "PhoneNumber", key_field |-> "number",
                  key_value |-> StripPhone(found[i]),
                  props |-> [raw |-> found[i]]]]
             \o PhoneEntities(Tail(lines))

RECURSIVE EmailEntitiesRaw(_)
\* The _EMAIL_RE loop with match.group() as the key, not lowered.
EmailEntitiesRaw(lines) ==
    IF lines = <<>> THEN <<>>
    ELSE LET found == EmailsIn(Head(lines).value)
         IN  [i \in DOMAIN found |->
                 [label |-> "EmailAddress", key_field |-> "address",
                  key_value |-> found[i], props |-> <<>>]]
             \o EmailEntitiesRaw(Tail(lines))

RECURSIVE EmailEntities(_)
\* extract_entities, the _EMAIL_RE loop.
EmailEntities(lines) ==
    IF lines = <<>> THEN <<>>
    ELSE LET found == EmailsIn(Head(lines).value)
         IN  [i \in DOMAIN found |->
                 [label |-> "EmailAddress", key_field |-> "address",
                  key_value |-> LowerName(found[i]), props |-> <<>>]]
             \o EmailEntities(Tail(lines))

RECURSIVE UrlEntities(_)
\* extract_entities, the _URL_RE loop.
UrlEntities(lines) ==
    IF lines = <<>> THEN <<>>
    ELSE LET found == UrlsIn(Head(lines).value)
         IN  [i \in DOMAIN found |->
                 [label |-> "URL", key_field |-> "address",
                  key_value |-> found[i], props |-> <<>>]]
             \o UrlEntities(Tail(lines))

RECURSIVE ContactEntities(_)
\* _extract_contact_entities
ContactEntities(lines) ==
    IF lines = <<>> THEN <<>>
    ELSE (IF Head(lines).prefix = "Contact:" /\ Head(lines).value # ""
          THEN <<[label |-> "Person", key_field |-> "uid",
                  key_value |-> Uid(<<"person", LowerName(Head(lines).value)>>),
                  props |-> [name |-> Head(lines).value]]>>
          ELSE <<>>)
         \o (IF Head(lines).prefix = "Org:" /\ Head(lines).value # ""
             THEN <<[label |-> "Organization", key_field |-> "name",
                     key_value |-> Head(lines).value,
                     props |-> <<>>]>>
             ELSE <<>>)
         \o ContactEntities(Tail(lines))

RECURSIVE MessageEntitiesFromOnly(_)
\* _extract_message_entities with the prefix loop over ("From:",) alone.
MessageEntitiesFromOnly(lines) ==
    IF lines = <<>> THEN <<>>
    ELSE LET line == Head(lines)
             named == IF line.prefix = "From:"
                      THEN SelectSeq(Parts(line.value), LAMBDA part : part # "" /\ ~IsPhone(part))
                      ELSE <<>>
         IN  [i \in DOMAIN named |->
                 [label |-> "Person", key_field |-> "uid",
                  key_value |-> Uid(<<"person", LowerName(named[i])>>),
                  props |-> [name |-> named[i]]]]
             \o (IF line.prefix = "App:" /\ line.value # ""
                 THEN <<[label |-> "App", key_field |-> "package",
                         key_value |-> LowerName(line.value),
                         props |-> [name |-> line.value]]>>
                 ELSE <<>>)
             \o MessageEntitiesFromOnly(Tail(lines))

RECURSIVE MessageEntities(_)
\* _extract_message_entities: a Person for every part of a From: or To: line
\* that is not a number, an App for an App: line.
MessageEntities(lines) ==
    IF lines = <<>> THEN <<>>
    ELSE LET line == Head(lines)
             named == IF line.prefix \in {"From:", "To:"}
                      THEN SelectSeq(Parts(line.value), LAMBDA part : part # "" /\ ~IsPhone(part))
                      ELSE <<>>
         IN  [i \in DOMAIN named |->
                 [label |-> "Person", key_field |-> "uid",
                  key_value |-> Uid(<<"person", LowerName(named[i])>>),
                  props |-> [name |-> named[i]]]]
             \o (IF line.prefix = "App:" /\ line.value # ""
                 THEN <<[label |-> "App", key_field |-> "package",
                         key_value |-> LowerName(line.value),
                         props |-> [name |-> line.value]]>>
                 ELSE <<>>)
             \o MessageEntities(Tail(lines))

\* extract_entities on a page of the type with the body (contact and message
\* pages; no coordinate in their text).
EntitiesIn(artifact_type, body) ==
    PhoneEntities(body)
        \o EmailEntities(body)
        \o UrlEntities(body)
        \o (IF artifact_type = "contact" THEN ContactEntities(body)
            ELSE IF artifact_type \in {"message", "chat_message", "sms", "mms"}
                 THEN MessageEntities(body)
                 ELSE <<>>)

\* Longest body of the pages drawn line by line.
MaxLines == 2

ContactLines == {LineAlice, LineNoName, LinePhone1, LinePhoneShort, LineEmail, LineOrg}

MessageLines == {LineChat, LineFrom, LineTo, LineToTwo, LineApp, LineText}

\* The bodies of at most MaxLines lines.
Bodies(lines) == UNION {[1..n -> lines] : n \in 1..MaxLines}

\* The entities of the contact pages of the sources, computed once per body.
SourceEntities ==
    [body \in {BodyAlice, BodySpaced, BodyOther} |-> EntitiesIn("contact", body)]

\* extract_entities(page) for a page of a source.
extract_entities(page) == SourceEntities[page.body]

\* One relationship dict.
Rel(sl, sk, sv, t, dl, dk, dv) ==
    [src_label |-> sl, src_key |-> sk, src_val |-> sv, rel_type |-> t,
     dst_label |-> dl, dst_key |-> dk, dst_val |-> dv]

RECURSIVE Pairs(_, _, _)
\* The nested loops of _infer_relationships: for each person, each target.
Pairs(persons, targets, t) ==
    IF persons = <<>> THEN <<>>
    ELSE [j \in DOMAIN targets |->
             Rel("Person", Head(persons).key_field, Head(persons).key_value, t,
                 targets[j].label, targets[j].key_field, targets[j].key_value)]
         \o Pairs(Tail(persons), targets, t)

RECURSIVE PersonRels(_, _, _, _)
\* For each person: its phones, then its e-mails, then its organisations.
PersonRels(persons, phones, emails, orgs) ==
    IF persons = <<>> THEN <<>>
    ELSE Pairs(<<Head(persons)>>, phones, "HAS_PHONE")
         \o Pairs(<<Head(persons)>>, emails, "HAS_EMAIL")
         \o Pairs(<<Head(persons)>>, orgs, "BELONGS_TO_ORG")
         \o PersonRels(Tail(persons), phones, emails, orgs)

\* _infer_relationships
infer_relationships(page, entities) ==
    LET persons == SelectSeq(entities, LAMBDA e : e.label = "Person")
        phones == SelectSeq(entities, LAMBDA e : e.label = "PhoneNumber")
        emails == SelectSeq(entities, LAMBDA e : e.label = "EmailAddress")
        orgs == SelectSeq(entities, LAMBDA e : e.label = "Organization")
        comm(t) == IF Len(persons) >= 2
                   THEN <<Rel("Person", persons[1].key_field, persons[1].key_value, t,
                              "Person", persons[2].key_field, persons[2].key_value)>>
                   ELSE <<>>
    IN  [i \in DOMAIN entities |->
            Rel(entities[i].label, entities[i].key_field, entities[i].key_value,
                "MENTIONED_IN", "Page", "page_id", page.page_id)]
        \o PersonRels(persons, phones, emails, orgs)
        \o (IF page.artifact_type \in {"message", "chat_message", "sms", "mms"}
            THEN comm("MESSAGED") ELSE <<>>)
        \o (IF page.artifact_type = "call_log" THEN comm("CALLED") ELSE <<>>)

\* A node matched by MERGE (n:label {key_field: key_value}).
Matches(n, label, key_field, key_value) ==
    /\ n.label = label
    /\ key_field \in DOMAIN n.props
    /\ n.props[key_field] = key_value

\* MERGE with CREATE in its place: a new node whatever the graph holds.
CreateNode(ns, item) ==
    Append(ns, [label |-> item.label,
                props |-> item.props @@ (item.key_field :> item.key_value)])

\* MERGE (n:label {key_field: item.key_value}) SET n += item.props
MergeNode(ns, item) ==
    IF \E i \in DOMAIN ns : Matches(ns[i], item.label, item.key_field, item.key_value)
    THEN [i \in DOMAIN ns |->
             IF Matches(ns[i], item.label, item.key_field, item.key_value)
             THEN [ns[i] EXCEPT !.props = item.props @@ @]
             ELSE ns[i]]
    ELSE Append(ns, [label |-> item.label,
                     props |-> item.props @@ (item.key_field :> item.key_value)])

RECURSIVE MergeNodes(_, _)
\* UNWIND $items AS item MERGE ... SET ...: item by item (comparing the
\* intermediate result with itself has it computed before the next item).
MergeNodes(ns, items) ==
    IF items = <<>> THEN ns
    ELSE LET merged == MergeNode(ns, Head(items))
         IN  IF merged = merged THEN MergeNodes(merged, Tail(items)) ELSE ns

\* The keys of a dict filled in this order, in insertion order: every key
\* that no earlier position of groupKeys holds.
FirstSeen(groupKeys) ==
    LET keyed == [i \in DOMAIN groupKeys |-> [at |-> i, key |-> groupKeys[i]]]
        first == SelectSeq(keyed, LAMBDA x : \A j \in 1..(x.at - 1) : groupKeys[j] # x.key)
    IN  [i \in DOMAIN first |-> first[i].key]

RECURSIVE ByGroup(_, _, _)
\* The items group by group, the groups in insertion order; groupKeys[i] is
\* the group of items[i].
ByGroup(items, groupKeys, keys) ==
    IF keys = <<>> THEN <<>>
    ELSE LET at == SelectSeq([i \in DOMAIN items |-> i],
                             LAMBDA i : groupKeys[i] = Head(keys))
         IN  [i \in DOMAIN at |-> items[at[i]]] \o ByGroup(items, groupKeys, Tail(keys))

\* for label, grp in node_groups.items(): client.batch_merge_nodes(...)
batch_merge_nodes(ns, items) ==
    LET labels == [i \in DOMAIN items |-> items[i].label]
    IN  MergeNodes(ns, ByGroup(items, labels, FirstSeen(labels)))

\* MERGE (a) MERGE (b) MERGE (a)-[r]->(b), on the graph g = [nodes, rels].
MergeRel(g, r) ==
    LET a == [label |-> r.src_label, key_field |-> r.src_key,
              key_value |-> r.src_val, props |-> <<>>]
        b == [label |-> r.dst_label, key_field |-> r.dst_key,
              key_value |-> r.dst_val, props |-> <<>>]
    IN  [nodes |-> MergeNode(MergeNode(g.nodes, a), b),
         rels |-> IF \E i \in DOMAIN g.rels : g.rels[i] = r
                  THEN g.rels ELSE Append(g.rels, r)]

RECURSIVE MergeRels(_, _)
\* UNWIND $batch AS item MERGE ...: item by item, as in MergeNodes.
MergeRels(g, items) ==
    IF items = <<>> THEN g
    ELSE LET merged == MergeRel(g, Head(items))
         IN  IF merged = merged THEN MergeRels(merged, Tail(items)) ELSE g

\* batch_merge_relationships: one batch per (src_label, src_key, rel_type,
\* dst_label, dst_key), in insertion order.
batch_merge_relationships(g, items) ==
    LET batches == [i \in DOMAIN items |->
                       <<items[i].src_label, items[i].src_key, items[i].rel_type,
                         items[i].dst_label, items[i].dst_key>>]
    IN  MergeRels(g, ByGroup(items, batches, FirstSeen(batches)))

\* A relationship with the node n at one of its ends.
Touches(r, n) ==
    \/ Matches(n, r.src_label, r.src_key, r.src_val)
    \/ Matches(n, r.dst_label, r.dst_key, r.dst_val)

\* MATCH (n:label {project_id: pid}) DETACH DELETE n
DetachDelete(g, label, pid) ==
    LET gone(n) == Matches(n, label, "project_id", pid)
    IN  [nodes |-> SelectSeq(g.nodes, LAMBDA n : ~gone(n)),
         rels |-> SelectSeq(g.rels, LAMBDA r :
                     ~\E i \in DOMAIN g.nodes : gone(g.nodes[i]) /\ Touches(r, g.nodes[i]))]

\* The purge without its first delete: the old Page nodes stay.
PurgeProjectOnly(g, pid) == DetachDelete(g, "Project", pid)

\* populate_graph, the purge: the project's Page nodes, then its Project node.
Purge(g, pid) == DetachDelete(DetachDelete(g, "Page", pid), "Project", pid)

\* The Project node's item (created_at, a wall-clock stamp, is left out).
ProjectItem(project_id, project_name, ext_id, page_count) ==
    [label |-> "Project", key_field |-> "project_id", key_value |-> project_id,
     props |-> [name |-> project_name, extraction_id |-> ext_id,
                page_count |-> page_count]]

\* The Page node's item, tagged with project_id.
PageItem(page, project_id) ==
    [label |-> "Page", key_field |-> "page_id", key_value |-> page.page_id,
     props |-> [artifact_type |-> page.artifact_type, title |-> page.title,
                extraction_id |-> page.extraction_id,
                page_number |-> page.page_number, project_id |-> project_id]]

\* ent_props = {**props, "project_id": project_id}
EntityItem(ent, project_id) ==
    [ent EXCEPT !.props = [project_id |-> project_id] @@ @]

\* X -> PART_OF -> Project
PartOf(item, project_id) ==
    Rel(item.label, item.key_field, item.key_value, "PART_OF",
        "Project", "project_id", project_id)

RECURSIVE PageNodeItems(_, _)
\* The page loop, the node items it collects.
PageNodeItems(pgs, project_id) ==
    IF pgs = <<>> THEN <<>>
    ELSE LET entities == extract_entities(Head(pgs))
         IN  <<PageItem(Head(pgs), project_id)>>
                 \o [i \in DOMAIN entities |-> EntityItem(entities[i], project_id)]
                 \o PageNodeItems(Tail(pgs), project_id)

RECURSIVE EntityPartOfs(_, _)
\* Per entity of the page: Entity -> PART_OF -> Project.
EntityPartOfs(entities, project_id) ==
    IF entities = <<>> THEN <<>>
    ELSE <<PartOf(Head(entities), project_id)>> \o EntityPartOfs(Tail(entities), project_id)

RECURSIVE PageRels(_, _)
\* The page loop, the relationships it collects (all_rels).
PageRels(pgs, project_id) ==
    IF pgs = <<>> THEN <<>>
    ELSE LET entities == extract_entities(Head(pgs))
         IN  <<PartOf(PageItem(Head(pgs), project_id), project_id)>>
                 \o EntityPartOfs(entities, project_id)
                 \o infer_relationships(Head(pgs), entities)
                 \o PageRels(Tail(pgs), project_id)

RECURSIVE CountEntities(_)
\* total_entities
CountEntities(pgs) ==
    IF pgs = <<>> THEN 0
    ELSE Len(extract_entities(Head(pgs))) + CountEntities(Tail(pgs))

\* populate_graph(client, pages) on the graph g, for a non-empty list of
\* pages none of which is a device-info page: the project is named after
\* the extraction id.
populate_graph(g, pgs) ==
    LET ext_id == pgs[1].extraction_id
        project_id == ext_id
        project_name == ext_id
        cleaned == Purge(g, project_id)
        items == <<ProjectItem(project_id, project_name, ext_id, Len(pgs))>>
                     \o PageNodeItems(pgs, project_id)
        all_rels == PageRels(pgs, project_id)
        written == [nodes |-> batch_merge_nodes(cleaned.nodes, items), rels |-> cleaned.rels]
        final == batch_merge_relationships(written, all_rels)
    IN  [nodes |-> final.nodes, rels |-> final.rels,
         stats |-> [entities |-> CountEntities(pgs), relationships |-> Len(all_rels),
                    pages |-> Len(pgs), project_id |-> project_id]]

\* The largest position at which a step of one ingest fails.
MaxFaultAt == 2

\* An ingest in which every call returns.
NoFault == [kind |-> "none", at |-> 0]

\* The one failure an ingest meets: vector indexing raises ("index"),
\* extract_entities raises for the page at `at` ("extract"), the purge
\* statement at `at` raises ("purge"), or the write of the node batch or of
\* the relationship batch at `at` raises ("nodes", "rels").
IngestFaults ==
    {NoFault, [kind |-> "index", at |-> 1]}
        \cup {[kind |-> k, at |-> a] :
                 k \in {"extract", "purge", "nodes", "rels"}, a \in 1..MaxFaultAt}

\* The node items populate_graph collects: the Project's, then page by page.
NodeItems(pgs) ==
    <<ProjectItem(pgs[1].extraction_id, pgs[1].extraction_id, pgs[1].extraction_id, Len(pgs))>>
        \o PageNodeItems(pgs, pgs[1].extraction_id)

\* node_groups' keys, in insertion order: one batch_merge_nodes call each.
NodeBatches(items) == FirstSeen([i \in DOMAIN items |-> items[i].label])

\* The group of a relationship in batch_merge_relationships.
RelBatchOf(r) == <<r.src_label, r.src_key, r.rel_type, r.dst_label, r.dst_key>>

\* The groups of batch_merge_relationships, in insertion order: one
\* session.run each.
RelBatches(items) == FirstSeen([i \in DOMAIN items |-> RelBatchOf(items[i])])

\* A planted fault: a failing write undoes the batches written before it.
WrittenBeforeNone(batches, at) == {}

\* The batches written when the write of the batch at `at` raises: the ones
\* before it, each in a transaction of its own.
WrittenBefore(batches, at) == {batches[i] : i \in 1..(at - 1)}

\* The failure happens in an ingest of these pages: there is a page, a
\* statement or a batch at its position.
Triggered(f, pgs) ==
    CASE f.kind = "none" -> TRUE
      [] f.kind = "index" -> TRUE
      [] f.kind = "extract" -> f.at <= Len(pgs)
      [] f.kind = "purge" -> f.at <= 2
      [] f.kind = "nodes" -> f.at <= Len(NodeBatches(NodeItems(pgs)))
      [] f.kind = "rels" -> f.at <= Len(RelBatches(PageRels(pgs, pgs[1].extraction_id)))

\* The purge when its statement at `at` raises: the statements before it
\* ran, the except logs a warning and populate_graph goes on.
PurgeUpTo(g, pid, at) == IF at = 1 THEN g ELSE DetachDelete(g, "Page", pid)

\* populate_graph(client, pages) in which the failure f happens: the graph
\* it leaves, the stats it returns, and whether it ends in an exception.
populate_graph_with(g, pgs, f) ==
    LET project_id == pgs[1].extraction_id
        cleaned == IF f.kind = "purge" THEN PurgeUpTo(g, project_id, f.at)
                   ELSE Purge(g, project_id)
        items == NodeItems(pgs)
        all_rels == PageRels(pgs, project_id)
        node_done == WrittenBefore(NodeBatches(items), f.at)
        rel_done == WrittenBefore(RelBatches(all_rels), f.at)
        some_nodes == batch_merge_nodes(cleaned.nodes,
                          SelectSeq(items, LAMBDA it : it.label \in node_done))
        all_nodes == [nodes |-> batch_merge_nodes(cleaned.nodes, items), rels |-> cleaned.rels]
        some_rels == batch_merge_relationships(all_nodes,
                         SelectSeq(all_rels, LAMBDA r : RelBatchOf(r) \in rel_done))
        done == populate_graph(g, pgs)
        whole == batch_merge_relationships(all_nodes, all_rels)
    IN  CASE f.kind = "extract" ->
                [nodes |-> cleaned.nodes, rels |-> cleaned.rels, stats |-> <<>>, raised |-> TRUE]
          [] f.kind = "nodes" ->
                [nodes |-> some_nodes, rels |-> cleaned.rels, stats |-> <<>>, raised |-> TRUE]
          [] f.kind = "rels" ->
                [nodes |-> some_rels.nodes, rels |-> some_rels.rels, stats |-> <<>>,
                 raised |-> TRUE]
          [] f.kind = "purge" ->
                [nodes |-> whole.nodes, rels |-> whole.rels, stats |-> done.stats,
                 raised |-> FALSE]
          [] OTHER ->
                [nodes |-> done.nodes, rels |-> done.rels, stats |-> done.stats,
                 raised |-> FALSE]

\* IngestResult: the fields set after the pages were built.
IngestResult(f, pgs, out) ==
    [fault |-> f,
     vector_indexed |-> IF f.kind = "index" THEN 0 ELSE Len(pgs),
     graph_entities |-> IF out.raised THEN 0 ELSE out.stats.entities,
     graph_relationships |-> IF out.raised THEN 0 ELSE out.stats.relationships,
     errors |-> (IF f.kind = "index" THEN <<"Vector indexing error">> ELSE <<>>)
                    \o (IF out.raised THEN <<"Graph error">> ELSE <<>>)]

\* index_extraction on a source of contact pages: page_id is a fresh uuid.
PagesOf(path, content, drawn) ==
    [i \in DOMAIN content |->
        [page_id |-> <<"uuid", drawn + i>>, extraction_id |-> ExtId(path),
         artifact_type |-> "contact", page_number |-> i,
         title |-> <<"Contacts", i>>, body |-> content[i]]]

\* The bodies of the pages stored for the source are its content: the source
\* has not changed since it was last ingested.
Unchanged(path) ==
    LET stored == pageStore[ExtId(path)]
    IN  /\ stored # <<>>
        /\ [i \in DOMAIN stored |-> stored[i].body] = source[path]

\* The page ids of the pages, in order.
PageIds(pgs) == [i \in DOMAIN pgs |-> pgs[i].page_id]

\* ForensIQPipeline.ingest(path): the pages saved, their vectors added to the
\* index (nothing is added when the embedding raises), the graph populated.
IngestRun(path, f) ==
    LET pgs == PagesOf(path, source[path], uuid)
        out == populate_graph_with([nodes |-> nodes, rels |-> rels], pgs, f)
    IN  /\ gret.n < MaxIngests
        /\ Triggered(f, pgs)
        /\ uuid' = uuid + Len(pgs)
        /\ pageStore' = [pageStore EXCEPT ![ExtId(path)] = pgs]
        /\ nodes' = out.nodes
        /\ rels' = out.rels
        /\ gret' = [n |-> gret.n + 1, path |-> path, stats |-> out.stats,
                    reingest |-> Unchanged(path)]
        /\ ires' = IngestResult(f, pgs, out)
        /\ faiss' = IF f.kind = "index" THEN faiss
                   ELSE [index |-> faiss.index \o PageIds(pgs),
                         page_ids |-> faiss.page_ids \o PageIds(pgs)]
        /\ UNCHANGED <<source, dret, ing, qry>>

\* ForensIQPipeline.ingest(path) in which every call returns.
IngestSource(path) == IngestRun(path, NoFault)

\* The file at a source path is replaced by another extraction.
EditSource(path, content) ==
    /\ content # source[path]
    /\ source' = [source EXCEPT ![path] = content]
    /\ UNCHANGED <<pageStore, nodes, rels, uuid, gret, ires, dret, concVars>>

\* Number of delete_project calls in a run.
MaxDeletes == 2

\* No delete_project call yet.
NotDeleted == [n |-> 0, project_id |-> <<>>, deleted_nodes |-> 0]

\* MATCH (n {project_id: $pid}) DETACH DELETE n: the nodes of every label.
DetachDeleteTagged(g, pid) ==
    LET gone(n) == "project_id" \in DOMAIN n.props /\ n.props.project_id = pid
    IN  [nodes |-> SelectSeq(g.nodes, LAMBDA n : ~gone(n)),
         rels |-> SelectSeq(g.rels, LAMBDA r :
                     ~\E i \in DOMAIN g.nodes : gone(g.nodes[i]) /\ Touches(r, g.nodes[i])),
         deleted |-> Len(SelectSeq(g.nodes, gone))]

\* DELETE /graph/project/{project_id}: the nodes tagged with the project,
\* then its Project node; the page store and the vector index are not
\* touched.
delete_project(project_id) ==
    LET tagged == DetachDeleteTagged([nodes |-> nodes, rels |-> rels], project_id)
        final == DetachDelete(tagged, "Project", project_id)
    IN  /\ dret.n < MaxDeletes
        /\ nodes' = final.nodes
        /\ rels' = final.rels
        /\ dret' = [n |-> dret.n + 1, project_id |-> project_id,
                    deleted_nodes |-> tagged.deleted]
        /\ UNCHANGED <<source, pageStore, uuid, gret, ires, concVars>>

\* An empty graph and an empty page store; the sources hold some content.
GraphStart ==
    /\ source \in [Sources -> Contents]
    /\ pageStore = [e \in {ExtId(p) : p \in Sources} |-> <<>>]
    /\ nodes = <<>>
    /\ rels = <<>>
    /\ uuid = 0
    /\ gret = [n |-> 0, path |-> "", stats |-> <<>>, reingest |-> FALSE]
    /\ dret = NotDeleted
    /\ ires = [fault |-> NoFault, vector_indexed |-> 0, graph_entities |-> 0,
               graph_relationships |-> 0, errors |-> <<>>]

GraphIdle ==
    /\ source = [p \in Sources |-> <<BodyAlice, BodySpaced>>]
    /\ pageStore = [e \in {ExtId(p) : p \in Sources} |-> <<>>]
    /\ nodes = <<>>
    /\ rels = <<>>
    /\ uuid = 0
    /\ gret = [n |-> 0, path |-> "", stats |-> <<>>, reingest |-> FALSE]
    /\ dret = NotDeleted
    /\ ires = [fault |-> NoFault, vector_indexed |-> 0, graph_entities |-> 0,
               graph_relationships |-> 0, errors |-> <<>>]

(***************************************************************************)
(* Query orchestration: ForensIQPipeline.query and _format_rag_context,    *)
(* src/forensiq/orchestrator/pipeline.py.  The vector index, the graph     *)
(* store, the page store and the language models are seen through what     *)
(* they return to the query.                                               *)
(***************************************************************************)

\* Number of queries in a run.
MaxQueries == 2

\* Number of queries in a run in which the stores and the models can fail.
MaxFaulty == 1

\* rag_context[:500], counted in parts of the context.
SummaryParts == 2

QueryTexts == {<<"Who", "called", "Bob", "?">>, <<"Who", "the", "?">>}

\* What the retriever answers: it raises, or returns no hit or one hit.
VectorOutcomes == {"raise", "none", "one"}

\* What the reads of the graph store answer during one query: the first
\* read raises; every read returns no row; every read returns one row; or
\* the first read returns one row and the second raises.
GraphOutcomes == {"raise", "none", "some", "partial"}

\* The reads of the graph store and of the page store answer from the graph
\* and the pages that the ingests wrote.
FromStore == "store"

\* What the page store answers in step 3c: it raises, or it holds the page a
\* graph row names or not.
PageStoreOutcomes == {"raise", "absent", "stored"}

\* What ForensIQLLM.generate answers: an exception, or a text, which can be
\* empty.
LlmOutcomes == {"raise", "empty", "text"}

\* The secondary backend at a call of ForensIQLLM.reframe: it is not
\* available, the call raises, or it answers.
SecondaryOutcomes == {"unavailable", "raise", "text"}

\* What a call on Redis does while Redis is the backend: it answers, or it
\* raises (the server cannot be reached).
RedisOutcomes == {"ok", "raise"}

\* One outcome of the primary and one of the secondary backend per query: a
\* query calls at most one of the two.
LlmPairs == {<<"raise", "raise">>, <<"empty", "unavailable">>, <<"text", "text">>}

\* What the graph store and the page store answer during one query: the page
\* store is read only when the graph returned a row.
GraphPairs ==
    {<<g, p>> \in GraphOutcomes \X PageStoreOutcomes :
        g \in {"raise", "none"} => p = "absent"}

\* What the stores and the models answer during one query.
Env(v, g, p, l, r) ==
    [vec |-> v, gph |-> g, pst |-> p, gen |-> l[1], sec |-> l[2],
     get |-> r[1], set |-> r[2]]

\* The answers while every read of a store either raises at once or
\* returns, and Redis answers.
QueryEnvs ==
    {Env(v, gp[1], gp[2], l, <<"ok", "ok">>) :
        v \in VectorOutcomes, l \in LlmPairs,
        gp \in {x \in GraphPairs : x[1] # "partial" /\ x[2] # "raise"}}

\* The outcomes of the read and of the write of a cache call on Redis; a
\* read that raises ends the call.
RedisPairs == {<<"ok", "ok">>, <<"raise", "ok">>, <<"ok", "raise">>}

\* The calls of query with every way a store or a model can fail; an
\* argument that switches a step off fixes the outcome of that step.
FaultCalls ==
    {c \in {[text |-> t, skip_cache |-> sc, skip_llm |-> sl, include_graph |-> ig,
             env |-> Env(v, gp[1], gp[2], l, r)] :
                t \in QueryTexts, sc \in BOOLEAN, sl \in BOOLEAN, ig \in BOOLEAN,
                v \in VectorOutcomes, gp \in GraphPairs, l \in LlmPairs, r \in RedisPairs} :
        /\ c.skip_cache => (c.env.get = "ok" /\ c.env.set = "ok")
        /\ c.skip_llm => c.env.gen = "text"
        /\ ~c.include_graph => c.env.gph = "none"}

\* Number of queries in a run that reads the graph the ingests wrote.
MaxSearches == 1

\* A text whose fourth and fifth words are no stop words of step 3b.
LongText == <<"carol", "phoned", "dave", "then", "Bob">>

\* The calls of query with the graph store and the page store answering
\* from what the ingests wrote, or the graph store raising; the cache is
\* skipped for a text that is none of Prompts.
SearchCalls ==
    {c \in {[text |-> t, skip_cache |-> sc, skip_llm |-> FALSE, include_graph |-> ig,
             env |-> Env(v, g, FromStore, <<"text", "text">>, <<"ok", "ok">>)] :
                t \in QueryTexts \cup {LongText}, sc \in BOOLEAN, ig \in BOOLEAN,
                v \in {"none", "one"}, g \in {FromStore, "raise"}} :
        /\ c.text \notin Prompts => c.skip_cache
        /\ ~c.include_graph => c.env.gph = FromStore}

\* The calls of query between and after ingests: every store answers from
\* what the ingests wrote, the models and Redis answer.
StaleCalls ==
    {[text |-> t, skip_cache |-> sc, skip_llm |-> sl, include_graph |-> TRUE,
      env |-> Env(v, FromStore, FromStore, <<"text", "text">>, <<"ok", "ok">>)] :
        t \in QueryTexts, sc \in BOOLEAN, sl \in BOOLEAN, v \in {"none", "one"}}

\* A text is a sequence of parts.
NoRecordsText == <<"No matching records found in the ingested device data.">>

NoEvidenceText == <<"(No relevant evidence found in RAG systems.)">>

LlmText(outcome) == IF outcome = "text" THEN <<"answer of the model">> ELSE <<>>

\* ForensIQLLM.reframe(text, prior) when it returns: the restatement of the
\* stored answer in the wording of the prompt, or the stored answer as it is
\* when the secondary backend is not available.
reframe(text, prior, sec) ==
    IF sec = "text" THEN <<"restated for", text, prior>> ELSE prior

\* The page the retriever can return, with its score.
HitPage ==
    [page_id |-> <<"uuid", 1>>, extraction_id |-> ExtId("/case/a.ufdr"),
     artifact_type |-> "contact", page_number |-> 1, title |-> <<"Contacts", 1>>,
     body |-> BodySpaced]

\* A planted fault: the retriever's exception leaves a hit behind.
RetrieverHitsOnRaise(vec) ==
    IF vec \in {"one", "raise"} THEN <<[page |-> HitPage, score |-> 1]>> ELSE <<>>

\* retriever.query(text, k)
RetrieverHits(vec) == IF vec = "one" THEN <<[page |-> HitPage, score |-> 1]>> ELSE <<>>

\* Step 2: the hits as dicts.
VectorHits(hits) ==
    [i \in DOMAIN hits |->
        [page_id |-> hits[i].page.page_id, score |-> hits[i].score,
         artifact_type |-> hits[i].page.artifact_type, title |-> hits[i].page.title,
         body |-> hits[i].page.body]]

\* A row of get_neighbours or of the keyword search: a Page node.
PageRow == [labels |-> <<"Page">>, props |-> [page_id |-> <<"uuid", 1>>]]

RECURSIVE AllEntities(_)
\* The entities of the given pages, in order.
AllEntities(hits) ==
    IF hits = <<>> THEN <<>>
    ELSE extract_entities(Head(hits).page) \o AllEntities(Tail(hits))

\* The number of reads of the graph store that return before one raises,
\* of n reads issued one after the other.
ReadsDone(n, gph) ==
    CASE gph = "raise" -> 0
      [] gph = "partial" -> IF n < 1 THEN n ELSE 1
      [] OTHER -> n

\* A step that issues n reads one after the other ends in an exception.
ReadRaises(n, gph) == ReadsDone(n, gph) < n

\* The number of reads issued, of n to issue one after the other: the ones
\* that returned and the one that raised.
ReadsIssued(n, gph) == IF ReadRaises(n, gph) THEN ReadsDone(n, gph) + 1 ELSE n

\* The distinct label:key_value entities of the first three hits, in order.
ExpansionEntities(hits) ==
    LET ents == AllEntities(SubSeq(hits, 1, IF Len(hits) < 3 THEN Len(hits) ELSE 3))
        fresh == SelectSeq([i \in DOMAIN ents |-> [at |-> i, ent |-> ents[i]]],
                     LAMBDA x : \A j \in 1..(x.at - 1) :
                         <<ents[j].label, ents[j].key_value>> # <<x.ent.label, x.ent.key_value>>)
    IN  [i \in DOMAIN fresh |-> fresh[i].ent]

RECURSIVE Concat(_)
\* The sequences of a sequence, joined.
Concat(seqs) == IF seqs = <<>> THEN <<>> ELSE Head(seqs) \o Concat(Tail(seqs))

\* The nodes at the ends of the relationships that touch one of the given
\* nodes, in creation order.
Adjacent(from) ==
    SelectSeq(nodes, LAMBDA m :
        \E i \in DOMAIN rels, j \in DOMAIN from :
            /\ Touches(rels[i], from[j]) /\ Touches(rels[i], m) /\ m # from[j])

\* Neo4jClient.get_neighbours(label, key_field, key_value, depth=2) on the
\* graph: the distinct nodes one or two relationships away.
get_neighbours(label, key_field, key_value) ==
    LET start == SelectSeq(nodes, LAMBDA n : Matches(n, label, key_field, key_value))
        near == Adjacent(start)
        far == Adjacent(near)
        found == SelectSeq(nodes, LAMBDA m :
                     \/ \E i \in DOMAIN near : near[i] = m
                     \/ (\E i \in DOMAIN far : far[i] = m)
                            /\ \A j \in DOMAIN start : start[j] # m)
    IN  [i \in DOMAIN found |-> [labels |-> <<found[i].label>>, props |-> found[i].props]]

\* toLower(value) CONTAINS $term, for the names the sources hold and the
\* terms the texts give: the term is one of the words of the name.
NameWords(name) ==
    CASE name = "Alice Smith" -> {"alice", "smith"}
      [] name = "Bob Ray" -> {"bob", "ray"}
      [] name = "Acme Corp" -> {"acme", "corp"}
      [] OTHER -> {}

\* toLower(n.name) CONTAINS $term OR toLower(n.text) CONTAINS $term; a
\* Project node is named after a digest, which holds no term.
NodeContains(n, term) ==
    /\ n.label # "Project"
    /\ \E field \in {"name", "text"} \cap DOMAIN n.props : term \in NameWords(n.props[field])

\* LIMIT 10 of the keyword search.
SearchLimit == 10

\* The keyword search of step 3b for one term, on the graph: one row per
\* matching node and relationship at it, the first SearchLimit.
KeywordRows(term) ==
    LET matched == SelectSeq(nodes, LAMBDA n : NodeContains(n, term))
        rowsOf(n) ==
            LET at == SelectSeq(rels, LAMBDA r : Touches(r, n))
                other(r) == SelectSeq(nodes, LAMBDA m : Touches(r, m) /\ m # n)[1]
            IN  [i \in DOMAIN at |->
                    [src_labels |-> <<n.label>>, src_props |-> n.props,
                     rel_type |-> at[i].rel_type,
                     tgt_labels |-> <<other(at[i]).label>>, tgt_props |-> other(at[i]).props]]
        rows == Concat([i \in DOMAIN matched |-> rowsOf(matched[i])])
    IN  SubSeq(rows, 1, IF Len(rows) < SearchLimit THEN Len(rows) ELSE SearchLimit)

\* Step 3: for the first three hits, one get_neighbours per distinct
\* label:key_value; an entity with neighbours gives one context entry.  The
\* first read that raises ends the step, the entries appended before it stay.
GraphExpansion(hits, gph) ==
    LET fresh == ExpansionEntities(hits)
        done == SubSeq(fresh, 1, ReadsDone(Len(fresh), gph))
        read == [i \in DOMAIN fresh |->
                    [entity |-> fresh[i],
                     neighbours |-> get_neighbours(fresh[i].label, fresh[i].key_field,
                                                   fresh[i].key_value)]]
    IN  IF gph = "none" THEN <<>>
        ELSE IF gph = FromStore THEN SelectSeq(read, LAMBDA c : c.neighbours # <<>>)
        ELSE [i \in DOMAIN done |-> [entity |-> done[i], neighbours |-> <<PageRow>>]]

\* Step 3: the reads issued.
ExpansionReads(hits, gph) ==
    LET fresh == ExpansionEntities(hits)
    IN  [i \in 1..ReadsIssued(Len(fresh), gph) |->
            [fn |-> "get_neighbours", arg |-> <<fresh[i].label, fresh[i].key_value>>]]

\* The stop words of step 3b that the pieces can produce.
QueryStop == {"the", "who"}

\* Step 3b: re.findall(r'\b[A-Za-z]{3,}\b', text.lower()) without the stop
\* words, the first three.
QueryTerms(text) ==
    LET words == SelectSeq([i \in DOMAIN text |-> Lower(text[i])],
                     LAMBDA w : w # "?" /\ Len(w) >= 3 /\ w \notin QueryStop)
    IN  SubSeq(words, 1, IF Len(words) < 3 THEN Len(words) ELSE 3)

\* A planted fault: the keyword search drops the rows it reads.
KeywordSearchNoRows(text, gph) == <<>>

\* Step 3b: one read per term, one context entry per row; the first read
\* that raises ends the step, the entries appended before it stay.
KeywordSearch(text, gph) ==
    LET terms == QueryTerms(text)
        done == SubSeq(terms, 1, ReadsDone(Len(terms), gph))
        entries(term) ==
            LET rows == KeywordRows(term)
            IN  [i \in DOMAIN rows |->
                    [entity |-> [label |-> rows[i].src_labels[1],
                                 key_value |-> IF "name" \in DOMAIN rows[i].src_props
                                               THEN rows[i].src_props.name ELSE term],
                     neighbours |-> <<[relationship |-> rows[i].rel_type,
                                       labels |-> rows[i].tgt_labels,
                                       props |-> rows[i].tgt_props]>>]]
    IN  IF gph = "none" THEN <<>>
        ELSE IF gph = FromStore THEN Concat([i \in DOMAIN terms |-> entries(terms[i])])
        ELSE [i \in DOMAIN done |->
                 [entity |-> [label |-> "Person", key_value |-> done[i]],
                  neighbours |-> <<[relationship |-> "MENTIONED_IN",
                                    labels |-> PageRow.labels, props |-> PageRow.props]>>]]

\* Step 3b: the reads issued, one per term.
KeywordReads(text, gph) ==
    LET terms == QueryTerms(text)
    IN  [i \in 1..ReadsIssued(Len(terms), gph) |-> [fn |-> "run_read", arg |-> terms[i]]]

\* Step 3c on the page store: the stored pages that a Page neighbour of the
\* context names, as one more context entry (the model's bodies are shorter
\* than the 1200 characters kept and fewer than the 15 pages fetched).
StoreHydrated(graph_context) ==
    LET nbrs == UNION {{graph_context[k].neighbours[j] :
                           j \in DOMAIN graph_context[k].neighbours} :
                       k \in DOMAIN graph_context}
        named == {nbr.props.page_id :
                     nbr \in {x \in nbrs : /\ x.labels = <<"Page">>
                                           /\ "page_id" \in DOMAIN x.props}}
        stored == Concat([i \in 1..Len(SortedSources) |-> pageStore[ExtId(SortedSources[i])]])
        found == SelectSeq(stored, LAMBDA pg : pg.page_id \in named)
    IN  IF found = <<>> THEN <<>>
        ELSE <<[entity |-> [label |-> "_HydratedPages", key_value |-> "page_content"],
                neighbours |-> [i \in DOMAIN found |->
                                   [page_id |-> found[i].page_id,
                                    artifact_type |-> found[i].artifact_type,
                                    title |-> found[i].title, body |-> found[i].body]]]>>

\* Step 3c: the pages named by the context's neighbours, read from the page
\* store; nothing is added when the read raises or the page is not stored.
Hydrated(graph_context, pst) ==
    IF pst = FromStore THEN StoreHydrated(graph_context)
    ELSE IF graph_context # <<>> /\ pst = "stored"
    THEN <<[entity |-> [label |-> "_HydratedPages", key_value |-> "page_content"],
            neighbours |-> <<[page_id |-> HitPage.page_id, artifact_type |-> HitPage.artifact_type,
                              title |-> HitPage.title, body |-> HitPage.body]>>]>>
    ELSE <<>>

\* _format_rag_context: the parts of the context, joined.
format_rag_context(vector_hits, graph_context) ==
    LET hydrated == SelectSeq(graph_context, LAMBDA c : c.entity.label = "_HydratedPages")
        entries == SelectSeq(graph_context, LAMBDA c : c.entity.label # "_HydratedPages")
        parts ==
            (IF vector_hits # <<>>
             THEN <<"### Retrieved Pages (semantic search)">>
                      \o [i \in DOMAIN vector_hits |-> <<"Page", i, vector_hits[i]>>]
             ELSE <<>>)
            \o (IF hydrated # <<>>
                THEN <<"### Forensic Evidence (page content from related entities)">>
                         \o [i \in DOMAIN hydrated |-> <<"Evidence", i, hydrated[i].neighbours>>]
                ELSE <<>>)
            \o (IF entries # <<>>
                THEN <<"### Graph Context (entity relationships)">>
                         \o [i \in DOMAIN entries |-> <<"Entity", entries[i]>>]
                ELSE <<>>)
    IN  IF parts # <<>> THEN parts ELSE NoEvidenceText

\* rag_context[:500]
Summary(rag_context) ==
    SubSeq(rag_context, 1, IF Len(rag_context) < SummaryParts THEN Len(rag_context) ELSE SummaryParts)

\* What lookup(text) returns.
Cached(text) ==
    IF extract_keywords(text) = <<>> THEN None ELSE CacheGet(KeyOf(text))

\* Steps 4-5 with the no-evidence branch left out: generate is called whenever
\* the model is not skipped.
SynthesizeNoGuard(text, vector_hits, graph_context, rag_context, skip_llm, gen) ==
    IF skip_llm
    THEN [answer |-> rag_context, source |-> "rag_only", calls |-> <<>>, raised |-> FALSE]
    ELSE [answer |-> LlmText(gen), source |-> "gemini",
          calls |-> <<[fn |-> "generate", text |-> text, context |-> rag_context,
                        outcome |-> gen]>>,
          raised |-> gen = "raise"]

\* A planted fault: an exception of generate is swallowed and the query goes
\* on with an empty answer.
SynthesizeSwallows(text, vector_hits, graph_context, rag_context, skip_llm, gen) ==
    LET has_evidence == vector_hits # <<>> \/ graph_context # <<>>
    IN  IF ~has_evidence
        THEN [answer |-> NoRecordsText, source |-> "system", calls |-> <<>>, raised |-> FALSE]
        ELSE IF skip_llm
        THEN [answer |-> rag_context, source |-> "rag_only", calls |-> <<>>, raised |-> FALSE]
        ELSE [answer |-> LlmText(gen), source |-> "gemini",
              calls |-> <<[fn |-> "generate", text |-> text, context |-> rag_context,
                        outcome |-> gen]>>,
              raised |-> FALSE]

\* Step 5: the answer, its source, and the calls made on the models.
Synthesize(text, vector_hits, graph_context, rag_context, skip_llm, gen) ==
    LET has_evidence == vector_hits # <<>> \/ graph_context # <<>>
    IN  IF ~has_evidence
        THEN [answer |-> NoRecordsText, source |-> "system", calls |-> <<>>, raised |-> FALSE]
        ELSE IF skip_llm
        THEN [answer |-> rag_context, source |-> "rag_only", calls |-> <<>>, raised |-> FALSE]
        ELSE [answer |-> LlmText(gen), source |-> "gemini",
              calls |-> <<[fn |-> "generate", text |-> text, context |-> rag_context,
                        outcome |-> gen]>>,
              raised |-> gen = "raise"]

\* A QueryResult, with the flags of the call and whether it took the
\* cache-miss path.
QueryResult(text, skip_llm, miss, answer, src, vector_hits, graph_context, rag_context, key, raised) ==
    [query |-> text, skip_llm |-> skip_llm, miss |-> miss, answer |-> answer,
     source |-> src, vector_hits |-> vector_hits, graph_context |-> graph_context,
     rag_context |-> rag_context, cache_key |-> key, raised |-> raised]

\* One step of a query and whether it ended without an exception.
Step(name, ok) == <<[step |-> name, ok |-> ok]>>

\* ForensIQPipeline.query when the lookup of step 1 raises: the exception
\* leaves query.
QueryLookupRaised(text, skip_llm) ==
    /\ cacheOps' = cacheOps + 1
    /\ CacheRaised("lookup_raised", text)
    /\ llmCalls' = <<>>
    /\ steps' = Step("cache_lookup", FALSE)
    /\ reads' = <<>>
    /\ qr' = QueryResult(text, skip_llm, FALSE, <<>>, "", <<>>, <<>>, <<>>, <<>>, TRUE)

\* ForensIQPipeline.query on a cache hit (step 1).
QueryHit(text, skip_llm, cached, sec) ==
    /\ Lookup(text)
    /\ llmCalls' = IF skip_llm THEN <<>>
                   ELSE <<[fn |-> "reframe", text |-> text, context |-> cached.response,
                           outcome |-> sec]>>
    /\ steps' = Step("cache_lookup", TRUE)
                    \o (IF skip_llm THEN <<>> ELSE Step("reframe", sec # "raise"))
    /\ reads' = <<>>
    /\ qr' = QueryResult(text, skip_llm, FALSE,
                 IF skip_llm THEN cached.response
                 ELSE IF sec = "raise" THEN <<>>
                 ELSE reframe(text, cached.response, sec),
                 IF skip_llm THEN "cache" ELSE "cache+openrouter",
                 <<>>, <<>>, <<>>, <<>>, ~skip_llm /\ sec = "raise")

\* The steps of a query on a cache miss, each with how it ended.
MissSteps(skip_cache, expands, searches, hydrates, env, graph_raised, syn, store_called) ==
    (IF skip_cache THEN <<>> ELSE Step("cache_lookup", TRUE))
        \o Step("vector_retrieval", env.vec # "raise")
        \o (IF expands THEN Step("graph_expansion", ~graph_raised) ELSE <<>>)
        \o (IF searches THEN Step("keyword_search", ~graph_raised) ELSE <<>>)
        \o (IF hydrates THEN Step("page_hydration", env.pst # "raise") ELSE <<>>)
        \o (IF syn.calls # <<>> THEN Step("generation", ~syn.raised) ELSE <<>>)
        \o (IF store_called THEN Step("cache_store", ~StoreRaises(env.set)) ELSE <<>>)

\* A planted fault: step 6 runs although generate raised.
StoreCalledAfterRaise(skip_cache, syn) == ~skip_cache

\* Step 6 is reached (generate returned) and its condition
\* "not skip_cache and qr.answer" holds.
StoreCalled(skip_cache, syn) == ~syn.raised /\ ~skip_cache /\ syn.answer # <<>>

\* ForensIQPipeline.query on a cache miss (steps 2-6); each local of the
\* method is bound once, in the order the method assigns it.
QueryMiss(text, skip_cache, skip_llm, include_graph, env) ==
    \E hits \in {RetrieverHits(env.vec)} :
    \E expands \in {include_graph /\ hits # <<>>}, searches \in {include_graph /\ hits = <<>>} :
    \E n \in {IF expands THEN Len(ExpansionEntities(hits)) ELSE Len(QueryTerms(text))} :
    \E found \in {IF expands THEN GraphExpansion(hits, env.gph)
                  ELSE IF searches THEN KeywordSearch(text, env.gph)
                  ELSE <<>>} :
    \E vector_hits \in {VectorHits(hits)}, graph_context \in {found \o Hydrated(found, env.pst)} :
    \E rag_context \in {format_rag_context(vector_hits, graph_context)} :
    \E syn \in {Synthesize(text, vector_hits, graph_context, rag_context, skip_llm, env.gen)} :
    \E store_called \in {StoreCalled(skip_cache, syn)} :
    \E store_raised \in {store_called /\ StoreRaises(env.set)} :
        /\ llmCalls' = syn.calls
        /\ steps' = MissSteps(skip_cache, expands, searches, found # <<>>, env,
                              ReadRaises(n, env.gph), syn, store_called)
        /\ reads' = IF expands THEN ExpansionReads(hits, env.gph)
                     ELSE IF searches THEN KeywordReads(text, env.gph)
                     ELSE <<>>
        /\ qr' = QueryResult(text, skip_llm, TRUE,
                     IF syn.raised \/ store_raised THEN <<>> ELSE syn.answer, syn.source,
                     vector_hits, graph_context, rag_context,
                     IF store_called /\ ~store_raised THEN KeyOf(text) ELSE <<>>,
                     syn.raised \/ store_raised)
        /\ IF store_called /\ ~store_raised
           THEN /\ StoreCall(text, syn.answer, Summary(rag_context))
                /\ cacheOps' = cacheOps + 2
           ELSE IF store_raised
           THEN /\ CacheRaised("store_raised", text)
                /\ cacheOps' = cacheOps + 2
           ELSE IF ~skip_cache THEN Lookup(text)
           ELSE UNCHANGED cacheVars

\* ForensIQPipeline.query(text, include_graph, skip_cache, skip_llm), with
\* what the stores and the models answer during the call.
Query(text, skip_cache, skip_llm, include_graph, env) ==
    LET cached == IF skip_cache THEN None ELSE Cached(text)
    IN  /\ queries < MaxQueries
        /\ queries' = queries + 1
        /\ IF ~skip_cache /\ LookupRaises(text, env.get, env.set)
           THEN QueryLookupRaised(text, skip_llm)
           ELSE IF cached # None
           THEN QueryHit(text, skip_llm, cached[1], env.sec)
           ELSE QueryMiss(text, skip_cache, skip_llm, include_graph, env)

QueryIdle ==
    /\ qr = QueryResult(<<>>, FALSE, FALSE, <<>>, "", <<>>, <<>>, <<>>, <<>>, FALSE)
    /\ llmCalls = <<>>
    /\ steps = <<>>
    /\ reads = <<>>
    /\ queries = 0

(***************************************************************************)
(* An ingest and a query in progress at the same time.  ForensIQPipeline   *)
(* takes no lock: ingest and query work on the same FAISSStore, PageStore  *)
(* and graph store, and each call on a store is a step of its own.         *)
(***************************************************************************)

\* The project that is ingested while the query runs, and the other one,
\* which was ingested before.
Ingested == "/case/a.ufdr"

Other == "/case/b.ufdr"

\* The contents of the two sources: the projects share a contact, or have
\* none in common.
ConcSources ==
    {[p \in Sources |-> IF p = Ingested THEN a ELSE b] :
        a \in {<<BodyAlice, BodySpaced>>, <<BodyOther>>},
        b \in {<<BodySpaced>>, <<BodyOther, BodyAlice>>}}

\* k of ForensIQPipeline.query.
TopK == 10

\* The order in which the scores of a query rank the rows of the index.
Orders == {"asc", "desc"}

\* FAISSStore.search(query_vec, k): the page ids of the top min(k, ntotal)
\* rows; _page_ids[idx] raises IndexError for a row past the end of the list.
FaissSearch(store, order) ==
    LET ntotal == Len(store.index)
        ranked == [i \in 1..ntotal |-> IF order = "asc" THEN i ELSE ntotal + 1 - i]
        top == SubSeq(ranked, 1, IF TopK < ntotal THEN TopK ELSE ntotal)
    IN  IF ntotal = 0 THEN [raised |-> FALSE, ids |-> <<>>]
        ELSE IF \E i \in DOMAIN top : top[i] > Len(store.page_ids)
        THEN [raised |-> TRUE, ids |-> <<>>]
        ELSE [raised |-> FALSE, ids |-> [i \in DOMAIN top |-> store.page_ids[top[i]]]]

\* VectorRetriever.query(text, k): the stored page of each id found (the
\* _id_to_page cache is refilled from the page store when it misses); an id
\* with no stored page is left out.
RetrieverQuery(store, order) ==
    LET found == FaissSearch(store, order)
        stored == Concat([i \in 1..Len(SortedSources) |-> pageStore[ExtId(SortedSources[i])]])
        page(id) == SelectSeq(stored, LAMBDA pg : pg.page_id = id)
    IN  [raised |-> found.raised,
         hits |-> Concat([i \in DOMAIN found.ids |->
                     IF page(found.ids[i]) = <<>> THEN <<>>
                     ELSE <<[page |-> page(found.ids[i])[1], score |-> 1]>>])]

\* ingest, steps 1-3: parse, build the pages, page_store.save_pages(pages).
IngestBegin(path) ==
    LET pgs == PagesOf(path, source[path], uuid)
    IN  /\ ing.pc = "idle"
        /\ uuid' = uuid + Len(pgs)
        /\ pageStore' = [pageStore EXCEPT ![ExtId(path)] = pgs]
        /\ ing' = [pc |-> "add", pgs |-> pgs, at |-> 0]
        /\ UNCHANGED <<source, nodes, rels, gret, ires, dret, faiss, qry>>

\* FAISSStore.add, self._index.add(vectors)
FaissAdd ==
    /\ ing.pc = "add"
    /\ faiss' = [faiss EXCEPT !.index = @ \o PageIds(ing.pgs)]
    /\ ing' = [ing EXCEPT !.pc = "extend"]
    /\ UNCHANGED <<graphVars, qry>>

\* FAISSStore.add, self._page_ids.extend(page_ids)
FaissExtend ==
    /\ ing.pc = "extend"
    /\ faiss' = [faiss EXCEPT !.page_ids = @ \o PageIds(ing.pgs)]
    /\ ing' = [ing EXCEPT !.pc = "purge", !.at = 1]
    /\ UNCHANGED <<graphVars, qry>>

\* populate_graph, one run_write of the purge: the Page nodes, then the
\* Project node.
PurgeStep ==
    LET g == [nodes |-> nodes, rels |-> rels]
        project_id == ing.pgs[1].extraction_id
        cleaned == DetachDelete(g, IF ing.at = 1 THEN "Page" ELSE "Project", project_id)
    IN  /\ ing.pc = "purge"
        /\ nodes' = cleaned.nodes
        /\ rels' = cleaned.rels
        /\ ing' = IF ing.at = 1 THEN [ing EXCEPT !.at = 2]
                  ELSE [ing EXCEPT !.pc = "nodes", !.at = 1]
        /\ UNCHANGED <<source, pageStore, uuid, gret, ires, dret, faiss, qry>>

\* populate_graph, one batch_merge_nodes call.
WriteNodeBatch ==
    LET items == NodeItems(ing.pgs)
        batches == NodeBatches(items)
    IN  /\ ing.pc = "nodes"
        /\ nodes' = batch_merge_nodes(nodes,
                        SelectSeq(items, LAMBDA it : it.label = batches[ing.at]))
        /\ ing' = IF ing.at < Len(batches) THEN [ing EXCEPT !.at = @ + 1]
                  ELSE [ing EXCEPT !.pc = "rels", !.at = 1]
        /\ UNCHANGED <<source, pageStore, rels, uuid, gret, ires, dret, faiss, qry>>

\* batch_merge_relationships, one session.run of a group; after the last
\* one ingest returns.
WriteRelBatch ==
    LET all_rels == PageRels(ing.pgs, ing.pgs[1].extraction_id)
        batches == RelBatches(all_rels)
        merged == batch_merge_relationships([nodes |-> nodes, rels |-> rels],
                      SelectSeq(all_rels, LAMBDA r : RelBatchOf(r) = batches[ing.at]))
    IN  /\ ing.pc = "rels"
        /\ nodes' = merged.nodes
        /\ rels' = merged.rels
        /\ ing' = IF ing.at < Len(batches) THEN [ing EXCEPT !.at = @ + 1]
                  ELSE [ing EXCEPT !.pc = "done", !.at = 0]
        /\ UNCHANGED <<source, pageStore, uuid, gret, ires, dret, faiss, qry>>

\* The query before it is called.
QueryNotCalled ==
    [pc |-> "idle", text |-> <<>>, order |-> "asc", hits |-> <<>>, vector_hits |-> <<>>,
     graph_context |-> <<>>, at |-> 0, swallowed |-> <<>>]

\* query(text, skip_cache=True, skip_llm=True) is called.
QueryBegin(text, order) ==
    /\ qry.pc = "idle"
    /\ qry' = [qry EXCEPT !.pc = "vector", !.text = text, !.order = order]
    /\ UNCHANGED <<graphVars, faiss, ing>>

\* Step 2: the vector retrieval, in its try/except.  Step 3 follows when
\* there are hits, step 3b when there are none.
QueryVector ==
    \E res \in {RetrieverQuery(faiss, qry.order)} :
        /\ qry.pc = "vector"
        /\ qry' = [qry EXCEPT
                      !.hits = res.hits,
                      !.vector_hits = VectorHits(res.hits),
                      !.swallowed = IF res.raised THEN <<"vector_retrieval">> ELSE <<>>,
                      !.pc = IF res.hits = <<>>
                             THEN (IF QueryTerms(qry.text) = <<>> THEN "hydrate" ELSE "search")
                             ELSE (IF ExpansionEntities(res.hits) = <<>> THEN "hydrate"
                                   ELSE "expand"),
                      !.at = 1]
        /\ UNCHANGED <<graphVars, faiss, ing>>

\* Step 3: one get_neighbours call.
QueryExpand ==
    LET fresh == ExpansionEntities(qry.hits)
        ent == fresh[qry.at]
        neighbours == get_neighbours(ent.label, ent.key_field, ent.key_value)
    IN  /\ qry.pc = "expand"
        /\ qry' = [qry EXCEPT
                      !.graph_context = IF neighbours = <<>> THEN @
                                        ELSE Append(@, [entity |-> ent,
                                                        neighbours |-> neighbours]),
                      !.at = @ + 1,
                      !.pc = IF qry.at < Len(fresh) THEN "expand" ELSE "hydrate"]
        /\ UNCHANGED <<graphVars, faiss, ing>>

\* Step 3b: one run_read of the keyword search.
QuerySearch ==
    LET terms == QueryTerms(qry.text)
    IN  /\ qry.pc = "search"
        /\ qry' = [qry EXCEPT
                      !.graph_context = @ \o KeywordSearch(<<terms[qry.at]>>, FromStore),
                      !.at = @ + 1,
                      !.pc = IF qry.at < Len(terms) THEN "search" ELSE "hydrate"]
        /\ UNCHANGED <<graphVars, faiss, ing>>

\* Step 3c: the hydration from the page store; query returns.
QueryHydrate ==
    /\ qry.pc = "hydrate"
    /\ qry' = [qry EXCEPT !.graph_context = @ \o Hydrated(@, FromStore), !.pc = "done"]
    /\ UNCHANGED <<graphVars, faiss, ing>>

\* No ingest and no query in progress, an empty index.
ConcIdle ==
    /\ faiss = [index |-> <<>>, page_ids |-> <<>>]
    /\ ing = [pc |-> "idle", pgs |-> <<>>, at |-> 0]
    /\ qry = QueryNotCalled

\* The other project has been ingested: its pages are stored and indexed,
\* its graph is populated.
OtherIngested ==
    \E pgs \in {PagesOf(Other, source[Other], 0)} :
    \E out \in {populate_graph_with([nodes |-> <<>>, rels |-> <<>>], pgs, NoFault)} :
        /\ pageStore = [e \in {ExtId(p) : p \in Sources} |->
                           IF e = ExtId(Other) THEN pgs ELSE <<>>]
        /\ nodes = out.nodes
        /\ rels = out.rels
        /\ uuid = Len(pgs)
        /\ gret = [n |-> 1, path |-> Other, stats |-> out.stats, reingest |-> FALSE]
        /\ dret = NotDeleted
        /\ ires = IngestResult(NoFault, pgs, out)
        /\ faiss = [index |-> PageIds(pgs), page_ids |-> PageIds(pgs)]
        /\ ing = [pc |-> "idle", pgs |-> <<>>, at |-> 0]
        /\ qry = QueryNotCalled

(***************************************************************************)
(* Extraction of one page: extract_entities and _infer_relationships as    *)
(* populate_graph calls them for each page.                                *)
(* src/backend/forensiq/graphrag/extractor.py                              *)
(***************************************************************************)

\* A page as index_extraction builds it.
PageOf(artifact_type, n, body) ==
    [page_id |-> <<"uuid", n>>, extraction_id |-> ExtId("/case/a.ufdr"),
     artifact_type |-> artifact_type, page_number |-> n,
     title |-> <<artifact_type, n>>, body |-> body]

\* The contact page of one record with a phone number.
ContactPage == PageOf("contact", 1, <<LineAlice, LinePhone1>>)

\* The message page of src/tests/test_extractor.py: a chat message from
\* Alice to Bob whose body holds a URL.
MessagePage == PageOf("message", 2, <<LineChat, LineFrom, LineTo, LineApp, LineText>>)

ExtractPages ==
    {ContactPage, MessagePage}
        \cup {PageOf("contact", 1, b) : b \in Bodies(ContactLines)}
        \cup {PageOf("message", 2, b) : b \in Bodies(MessageLines)}

NotExtracted == [done |-> FALSE, entities |-> <<>>, relationships |-> <<>>]

\* populate_graph, the body of its loop over the pages: the entities of the
\* page and the relationships inferred from them.
ExtractPage ==
    /\ ~xret.done
    /\ xret' = [done |-> TRUE,
                entities |-> EntitiesIn(xpage.artifact_type, xpage.body),
                relationships |-> infer_relationships(xpage,
                                      EntitiesIn(xpage.artifact_type, xpage.body))]
    /\ UNCHANGED xpage

\* The loop goes on to another page.
NextPage(page) ==
    /\ xret.done
    /\ xpage' = page
    /\ xret' = NotExtracted

ExtractIdle ==
    /\ xpage = ContactPage
    /\ xret = NotExtracted

(***************************************************************************)
(* The rate limiter of the auth endpoints.                                 *)
(* src/backend/forensiq/auth/deps.py, src/backend/forensiq/api/routes.py   *)
(***************************************************************************)

Ips == {"10.0.0.1", "10.0.0.2"}

\* The limits the handlers pass: login 5 attempts per 300 s, signup 10
\* attempts per 600 s.
LoginAttempts == 5

LoginWindow == 300

SignupAttempts == 10

SignupWindow == 600

Endpoints ==
    {[name |-> "login", max_attempts |-> LoginAttempts, window |-> LoginWindow],
     [name |-> "signup", max_attempts |-> SignupAttempts, window |-> SignupWindow]}

\* The clock at the end of a run and the number of calls in it.
MaxMono == 300

MaxCalls == 12

\* check_rate_limit(request, max_attempts, window), under _lock: the old
\* entries of the IP are pruned, then the call is either rejected with 429
\* or recorded.
check_rate_limit(ip, endpoint, max_attempts, window) ==
    LET kept == SelectSeq(attempts[ip], LAMBDA t : mono - t < window)
        over == Len(kept) >= max_attempts
    IN  /\ rret.n < MaxCalls
        /\ attempts' = [attempts EXCEPT ![ip] = IF over THEN kept ELSE Append(kept, mono)]
        /\ rret' = [n |-> rret.n + 1, ip |-> ip, endpoint |-> endpoint,
                    status_code |-> IF over THEN 429 ELSE 200]
        /\ admitted' = IF over THEN admitted
                       ELSE [admitted EXCEPT ![ip][endpoint] = Append(@, mono)]
        /\ UNCHANGED mono

\* Five minutes pass.
Advance ==
    /\ mono + LoginWindow <= MaxMono
    /\ mono' = mono + LoginWindow
    /\ UNCHANGED <<attempts, admitted, rret>>

RateIdle ==
    /\ attempts = [ip \in Ips |-> <<>>]
    /\ mono = 0
    /\ admitted = [ip \in Ips |-> [name \in {"login", "signup"} |-> <<>>]]
    /\ rret = [n |-> 0, ip |-> "", endpoint |-> "", status_code |-> 0]

(***************************************************************************)
(* Password reset.                                                         *)
(* src/backend/forensiq/auth/mongo.py                                      *)
(***************************************************************************)

Emails == {"alice@example.com", "nobody@example.com"}

Passwords == {"Passw0rd1", "Passw0rd2"}

\* The requests served at once, the tokens created and the calls returned
\* in a run.
Requests == {1, 2}

MaxTokens == 2

MaxAuthCalls == 4

\* _hash_password: bcrypt with a fresh salt, a hash no earlier call produced.
HashPassword(plain, salt) == <<"bcrypt", plain, salt>>

NoRequest == [pc |-> "idle", token |-> 0, new_hash |-> <<>>, reset_doc |-> 0]

\* create_password_reset(email): a fresh unused token for a known email,
\* None for an unknown one.
create_password_reset(email) ==
    /\ Len(resetLog) < MaxAuthCalls
    /\ Len(password_resets) < MaxTokens
    /\ IF email \in DOMAIN users
       THEN /\ password_resets' = Append(password_resets,
                    [email |-> email, token |-> Len(password_resets) + 1, used |-> FALSE])
            /\ resetLog' = Append(resetLog, [call |-> "create_password_reset",
                    token |-> Len(password_resets) + 1, returned |-> TRUE])
       ELSE /\ UNCHANGED password_resets
            /\ resetLog' = Append(resetLog, [call |-> "create_password_reset",
                    token |-> 0, returned |-> FALSE])
    /\ UNCHANGED <<users, reqs>>

\* reset_password up to its first await's result: find_one({token, used:
\* False}); it returns False when there is no such document.
ResetFind(r, token, new_password) ==
    LET found == {i \in DOMAIN password_resets :
                     password_resets[i].token = token /\ ~password_resets[i].used}
    IN  /\ reqs[r].pc = "idle"
        /\ Len(resetLog) < MaxAuthCalls
        /\ IF found = {}
           THEN /\ resetLog' = Append(resetLog, [call |-> "reset_password",
                        token |-> token, returned |-> FALSE])
                /\ UNCHANGED reqs
           ELSE /\ reqs' = [reqs EXCEPT ![r] =
                        [pc |-> "found", token |-> token,
                         new_hash |-> HashPassword(new_password, <<r, Len(resetLog)>>),
                         reset_doc |-> CHOOSE i \in found : \A j \in found : i <= j]]
                /\ UNCHANGED resetLog
        /\ UNCHANGED <<users, password_resets>>

\* reset_password, users.update_one: the hash is set; it returns False when
\* no document was modified.
ResetUpdate(r) ==
    LET email == password_resets[reqs[r].reset_doc].email
        modified == email \in DOMAIN users /\ users[email].password_hash # reqs[r].new_hash
    IN  /\ reqs[r].pc = "found"
        /\ IF modified
           THEN /\ users' = [users EXCEPT ![email].password_hash = reqs[r].new_hash]
                /\ reqs' = [reqs EXCEPT ![r].pc = "updated"]
                /\ UNCHANGED resetLog
           ELSE /\ resetLog' = Append(resetLog, [call |-> "reset_password",
                        token |-> reqs[r].token, returned |-> FALSE])
                /\ reqs' = [reqs EXCEPT ![r] = NoRequest]
                /\ UNCHANGED users
        /\ UNCHANGED password_resets

\* reset_password, password_resets.update_one: the token is marked used and
\* the call returns True.
ResetMarkUsed(r) ==
    /\ reqs[r].pc = "updated"
    /\ password_resets' = [password_resets EXCEPT ![reqs[r].reset_doc].used = TRUE]
    /\ resetLog' = Append(resetLog, [call |-> "reset_password",
            token |-> reqs[r].token, returned |-> TRUE])
    /\ reqs' = [reqs EXCEPT ![r] = NoRequest]
    /\ UNCHANGED users

ResetIdle ==
    /\ users = [email \in {"alice@example.com"} |-> [password_hash |-> HashPassword("Passw0rd0", <<>>)]]
    /\ password_resets = <<>>
    /\ reqs = [r \in Requests |-> NoRequest]
    /\ resetLog = <<>>

AuxIdle == ExtractIdle /\ RateIdle /\ ResetIdle


(***************************************************************************)
(* Specifications                                                          *)
(***************************************************************************)

NextCache ==
    \/ (\E p \in Prompts : Lookup(p)) /\ UNCHANGED <<auxVars, chunkVars, graphVars, queryVars, concVars>>
    \/ (\E p \in Prompts, r \in Responses : Store(p, r, "ctx")) /\ UNCHANGED <<auxVars, chunkVars, graphVars, queryVars, concVars>>
    \/ (\E p \in Prompts : Invalidate(p)) /\ UNCHANGED <<auxVars, chunkVars, graphVars, queryVars, concVars>>
    \/ FlushAll /\ UNCHANGED <<auxVars, chunkVars, graphVars, queryVars, concVars>>
    \/ Tick /\ UNCHANGED <<auxVars, chunkVars, graphVars, queryVars, concVars>>

StartCache == InitCache /\ ChunkIdle /\ AuxIdle /\ GraphIdle /\ QueryIdle /\ ConcIdle

SpecCache == StartCache /\ [][NextCache]_vars

NextChunk ==
    \/ (\E g \in GroupNames, tc \in 1..MaxRecTokens : AddRecord(g, tc)) /\ UNCHANGED <<auxVars, cacheVars, graphVars, queryVars, concVars>>
    \/ AddOther /\ UNCHANGED <<auxVars, cacheVars, graphVars, queryVars, concVars>>
    \/ (\E tc \in 1..MaxRecTokens : SetDevice(tc)) /\ UNCHANGED <<auxVars, cacheVars, graphVars, queryVars, concVars>>
    \/ (\E skip_graph \in BOOLEAN : Ingest(skip_graph)) /\ UNCHANGED <<auxVars, cacheVars, graphVars, queryVars, concVars>>

StartChunk == ChunkIdle /\ AuxIdle /\ CacheIdle /\ GraphIdle /\ QueryIdle /\ ConcIdle

SpecChunk == StartChunk /\ [][NextChunk]_vars

NextGraph ==
    \/ (\E path \in Sources : IngestSource(path)) /\ UNCHANGED <<auxVars, cacheVars, chunkVars, queryVars>>
    \/ (\E path \in Sources, content \in Contents : EditSource(path, content)) /\ UNCHANGED <<auxVars, cacheVars, chunkVars, queryVars>>

StartGraph == GraphStart /\ CacheIdle /\ ChunkIdle /\ AuxIdle /\ QueryIdle /\ ConcIdle

SpecGraph == StartGraph /\ [][NextGraph]_vars

NextQuery ==
    (\E text \in QueryTexts, skip_cache, skip_llm, include_graph \in BOOLEAN,
        env \in QueryEnvs :
            Query(text, skip_cache, skip_llm, include_graph, env))
        /\ UNCHANGED <<auxVars, chunkVars, graphVars, concVars>>

StartQuery == CacheIdle /\ ChunkIdle /\ AuxIdle /\ GraphIdle /\ QueryIdle /\ ConcIdle

SpecQuery == StartQuery /\ [][NextQuery]_vars

NextSearch ==
    \/ (\E path \in Sources : IngestSource(path)) /\ UNCHANGED <<auxVars, cacheVars, chunkVars, queryVars>>
    \/ (\E c \in SearchCalls :
            /\ queries < MaxSearches
            /\ Query(c.text, c.skip_cache, c.skip_llm, c.include_graph, c.env))
            /\ UNCHANGED <<auxVars, chunkVars, graphVars, concVars>>

StartSearch ==
    /\ \/ CacheIdle
       \/ CacheStored(<<"Who", "called", "Bob", "?">>, "42", "ctx")
    /\ ChunkIdle /\ AuxIdle /\ GraphIdle /\ QueryIdle /\ ConcIdle

SpecSearch == StartSearch /\ [][NextSearch]_vars

\* Number of ingests in a run in which ingests can fail.
MaxFaultyIngests == 2

NextIngest ==
    (\E path \in Sources, f \in IngestFaults :
        /\ gret.n < MaxFaultyIngests
        /\ IngestRun(path, f))
        /\ UNCHANGED <<auxVars, cacheVars, chunkVars, queryVars>>

StartIngest == GraphIdle /\ CacheIdle /\ ChunkIdle /\ AuxIdle /\ QueryIdle /\ ConcIdle

SpecIngest == StartIngest /\ [][NextIngest]_vars

StartFault ==
    /\ \/ InitCache /\ useRedis
       \/ CacheStored(<<"Who", "called", "Bob", "?">>, "42", "ctx")
    /\ ChunkIdle /\ AuxIdle /\ GraphIdle /\ QueryIdle /\ ConcIdle

NextFault ==
    (\E c \in FaultCalls :
        /\ queries < MaxFaulty
        /\ Query(c.text, c.skip_cache, c.skip_llm, c.include_graph, c.env))
        /\ UNCHANGED <<auxVars, chunkVars, graphVars, concVars>>

SpecFault == StartFault /\ [][NextFault]_vars

NextConcurrent ==
    \/ IngestBegin(Ingested) /\ UNCHANGED <<auxVars, cacheVars, chunkVars, queryVars>>
    \/ FaissAdd /\ UNCHANGED <<auxVars, cacheVars, chunkVars, queryVars>>
    \/ FaissExtend /\ UNCHANGED <<auxVars, cacheVars, chunkVars, queryVars>>
    \/ PurgeStep /\ UNCHANGED <<auxVars, cacheVars, chunkVars, queryVars>>
    \/ WriteNodeBatch /\ UNCHANGED <<auxVars, cacheVars, chunkVars, queryVars>>
    \/ WriteRelBatch /\ UNCHANGED <<auxVars, cacheVars, chunkVars, queryVars>>
    \/ (\E text \in QueryTexts, order \in Orders : QueryBegin(text, order)) /\ UNCHANGED <<auxVars, cacheVars, chunkVars, queryVars>>
    \/ QueryVector /\ UNCHANGED <<auxVars, cacheVars, chunkVars, queryVars>>
    \/ QueryExpand /\ UNCHANGED <<auxVars, cacheVars, chunkVars, queryVars>>
    \/ QuerySearch /\ UNCHANGED <<auxVars, cacheVars, chunkVars, queryVars>>
    \/ QueryHydrate /\ UNCHANGED <<auxVars, cacheVars, chunkVars, queryVars>>

StartConcurrent ==
    /\ source \in ConcSources
    /\ OtherIngested
    /\ CacheIdle /\ ChunkIdle /\ AuxIdle /\ QueryIdle

SpecConcurrent == StartConcurrent /\ [][NextConcurrent]_vars

NextStale ==
    \/ (\E path \in Sources : IngestSource(path)) /\ UNCHANGED <<auxVars, cacheVars, chunkVars, queryVars>>
    \/ (\E c \in StaleCalls : Query(c.text, c.skip_cache, c.skip_llm, c.include_graph, c.env))
            /\ UNCHANGED <<auxVars, chunkVars, graphVars, concVars>>

StartStale == InitCache /\ ChunkIdle /\ AuxIdle /\ GraphIdle /\ QueryIdle /\ ConcIdle

SpecStale == StartStale /\ [][NextStale]_vars

NextProject ==
    \/ (\E path \in Sources : IngestSource(path)) /\ UNCHANGED <<auxVars, cacheVars, chunkVars, queryVars>>
    \/ (\E path \in Sources : delete_project(ExtId(path))) /\ UNCHANGED <<auxVars, cacheVars, chunkVars, queryVars>>

StartProject ==
    /\ source \in ConcSources
    /\ GraphStart /\ CacheIdle /\ ChunkIdle /\ AuxIdle /\ QueryIdle /\ ConcIdle

SpecProject == StartProject /\ [][NextProject]_vars

NextExtract ==
    \/ ExtractPage /\ UNCHANGED <<coreVars, rateVars, resetVars>>
    \/ (\E page \in ExtractPages : NextPage(page)) /\ UNCHANGED <<coreVars, rateVars, resetVars>>

StartExtract ==
    /\ xpage \in ExtractPages
    /\ xret = NotExtracted
    /\ CacheIdle /\ ChunkIdle /\ GraphIdle /\ QueryIdle /\ ConcIdle
    /\ RateIdle /\ ResetIdle

SpecExtract == StartExtract /\ [][NextExtract]_vars

NextRate ==
    \/ (\E ip \in Ips, e \in Endpoints :
            check_rate_limit(ip, e.name, e.max_attempts, e.window))
        /\ UNCHANGED <<coreVars, extractVars, resetVars>>
    \/ Advance /\ UNCHANGED <<coreVars, extractVars, resetVars>>

StartRate ==
    /\ CacheIdle /\ ChunkIdle /\ GraphIdle /\ QueryIdle /\ ConcIdle
    /\ ExtractIdle /\ RateIdle /\ ResetIdle

SpecRate == StartRate /\ [][NextRate]_vars

NextReset ==
    \/ (\E email \in Emails : create_password_reset(email))
        /\ UNCHANGED <<coreVars, extractVars, rateVars>>
    \/ (\E r \in Requests, token \in 1..MaxTokens, new_password \in Passwords :
            ResetFind(r, token, new_password))
        /\ UNCHANGED <<coreVars, extractVars, rateVars>>
    \/ (\E r \in Requests : ResetUpdate(r)) /\ UNCHANGED <<coreVars, extractVars, rateVars>>
    \/ (\E r \in Requests : ResetMarkUsed(r)) /\ UNCHANGED <<coreVars, extractVars, rateVars>>

StartReset ==
    /\ CacheIdle /\ ChunkIdle /\ GraphIdle /\ QueryIdle /\ ConcIdle
    /\ ExtractIdle /\ RateIdle /\ ResetIdle

SpecReset == StartReset /\ [][NextReset]_vars

(***************************************************************************)
(* Claims about the response cache (SpecCache)                             *)
(***************************************************************************)

\* The history of the looked-up prompt's keyword set is younger than the TTL.
MonFresh(prompt) ==
    /\ mon[KeywordSet(prompt)] # None
    /\ mon[KeywordSet(prompt)][1].age < TtlTicks

\* What the contract promises of the lookup in ret, given the monitor.
LookupAsPromised ==
    /\ ret.result # None
    /\ ret.result[1].response = mon[KeywordSet(ret.prompt)][1].response
    /\ ret.result[1].hit_count = mon[KeywordSet(ret.prompt)][1].n

\* What the contract promises of the store in ret: the entry is there with count 0.
StoreAsPromised ==
    /\ CacheGet(KeyOf(ret.prompt)) # None
    /\ CacheGet(KeyOf(ret.prompt))[1].response = mon[KeywordSet(ret.prompt)][1].response
    /\ CacheGet(KeyOf(ret.prompt))[1].hit_count = 0

\* C1 (as amended): on either backend, for every prompt with at least one
\* keyword, the n-th lookup since the last store of its keyword set (within
\* the TTL, no invalidate or flush in between) returns the stored response
\* with hit_count n, and a store leaves the entry with hit_count 0.
C1_HitCount ==
    /\ (ret.op = "lookup" /\ MonFresh(ret.prompt) /\ KeywordSet(ret.prompt) # {})
            => LookupAsPromised
    /\ (ret.op = "store" /\ MonFresh(ret.prompt)) => StoreAsPromised

\* C1 witness: a second lookup after a store returned hit_count 2.
C1_Witness ==
    /\ ret.op = "lookup"
    /\ ret.result # None
    /\ ret.result[1].hit_count = 2
    /\ MonFresh(ret.prompt)

\* C1 as claimed: for every prompt, also one without any keyword.
C1_Original ==
    /\ (ret.op = "lookup" /\ MonFresh(ret.prompt)) => LookupAsPromised
    /\ (ret.op = "store" /\ MonFresh(ret.prompt)) => StoreAsPromised

\* The keyword set as the claim words it: lowercased tokens without the stop
\* words, deduplicated.
ClaimedKeywordSet(prompt) ==
    {Lower(prompt[i]) : i \in {j \in DOMAIN prompt :
        prompt[j] # "?" /\ Lower(prompt[j]) \notin STOP_WORDS}}

\* C2 (as amended): two prompts have the same fingerprint exactly when their
\* keyword sets (lowercased tokens without stop words and without
\* one-character tokens) are equal; a lookup hits only if a prompt with the
\* same keyword set was stored and not invalidated since, and it does hit if
\* that set is not empty and the store is younger than the TTL.
C2_Fingerprint ==
    /\ \A p1, p2 \in Prompts :
          (cache_key(extract_keywords(p1)) = cache_key(extract_keywords(p2)))
              <=> (KeywordSet(p1) = KeywordSet(p2))
    /\ (ret.op = "lookup" /\ ret.result # None) =>
          /\ mon[KeywordSet(ret.prompt)] # None
          /\ KeywordSet(ret.prompt) # {}
          /\ ret.result[1].keywords = extract_keywords(mon[KeywordSet(ret.prompt)][1].prompt)
    /\ (ret.op = "lookup" /\ MonFresh(ret.prompt) /\ KeywordSet(ret.prompt) # {})
          => ret.result # None

\* C2 witness: a lookup hit the entry stored under a differently worded prompt.
C2_Witness ==
    /\ ret.op = "lookup"
    /\ ret.result # None
    /\ ret.result[1].prompt # ret.prompt

\* C2 as claimed: after store(p1), lookup(p2) hits if and only if p1 and p2
\* have the same keyword set as the claim words it.
C2_Original ==
    ret.op = "lookup" =>
        /\ (ret.result # None) =>
              \E ks \in KeywordSets :
                  /\ mon[ks] # None
                  /\ ClaimedKeywordSet(mon[ks][1].prompt) = ClaimedKeywordSet(ret.prompt)
        /\ (\E ks \in KeywordSets :
                  /\ mon[ks] # None
                  /\ mon[ks][1].age < TtlTicks
                  /\ ClaimedKeywordSet(mon[ks][1].prompt) = ClaimedKeywordSet(ret.prompt))
              => ret.result # None


(***************************************************************************)
(* Claims about the chunker and the start of ingest (SpecChunk)            *)
(***************************************************************************)

\* The records of a page body: the body split at "\n\n".
ItemsOf(body) == SelectSeq(body, LAMBDA it : it # Sep)

RECURSIVE SumTokens(_)
SumTokens(items) ==
    IF items = <<>> THEN 0 ELSE Head(items).tc + SumTokens(Tail(items))

RECURSIVE RecordsInPages(_, _)
\* The records found in the pages of a group, read in page order.
RecordsInPages(pgs, g) ==
    IF pgs = <<>> THEN <<>>
    ELSE (IF Head(pgs).artifact_type = g THEN ItemsOf(Head(pgs).body) ELSE <<>>)
            \o RecordsInPages(Tail(pgs), g)

\* C8: after index_extraction the records in a group's pages, in page
\* order, are the group's records in input order, and every record is in
\* exactly one page.
C8_NoSplitNoDrop ==
    result # None =>
        \A g \in GroupNames :
            /\ RecordsInPages(pages, g) = ext.groups[g]
            /\ \A r \in DOMAIN ext.groups[g] :
                  Cardinality({i \in DOMAIN pages :
                      /\ pages[i].artifact_type = g
                      /\ \E j \in DOMAIN pages[i].body :
                            pages[i].body[j] = ext.groups[g][r]}) = 1

\* C8 witness: a group of three records was chunked into more than one page.
C8_Witness ==
    /\ result # None
    /\ \E g \in GroupNames :
          /\ Len(ext.groups[g]) >= 3
          /\ Cardinality({i \in DOMAIN pages : pages[i].artifact_type = g}) >= 2

\* The explicit no-content result of ingest: no page, an error entry, an
\* empty extraction_id, and no call to the page store, the vector index or
\* the graph.
NoContentResult ==
    /\ pages = <<>>
    /\ result[1].total_pages = 0
    /\ result[1].errors # <<>>
    /\ result[1].extraction_id = <<>>
    /\ calls = <<>>

\* C9 (as amended): an extraction with zero records and no device-info field
\* produces zero pages and ingest returns the no-content result; ingest
\* returns the no-content result exactly when index_extraction built no page.
C9_NoContent ==
    result # None =>
        /\ (total_artifacts(ext) = 0 /\ ext.device = 0) => NoContentResult
        /\ (pages = <<>>) <=> NoContentResult
        /\ (pages = <<>>) <=>
              (ext.device = 0 /\ \A g \in GroupNames : ext.groups[g] = <<>>)

\* C9 witness: ingest of an empty extraction returned the no-content result.
C9_Witness ==
    /\ result # None
    /\ total_artifacts(ext) = 0
    /\ result[1].errors # <<>>
    /\ calls = <<>>

\* C9 as claimed: zero total records give the no-content result.
C9_Original ==
    (result # None /\ total_artifacts(ext) = 0) => NoContentResult

(***************************************************************************)
(* Claims about graph population (SpecGraph)                               *)
(***************************************************************************)

\* The nodes that are neither the Project hub nor a Page.
EntityNodes(ns) == SelectSeq(ns, LAMBDA n : n.label \notin {"Project", "Page"})

\* The page_count values of the Project nodes of a project.
PageCounts(ns, pid) ==
    {ns[i].props.page_count : i \in {j \in DOMAIN ns : Matches(ns[j], "Project", "project_id", pid)}}

\* The step is an ingest of the source at path.
IngestStep(path) == gret'.n # gret.n /\ gret'.path = path

\* C3: re-ingest is idempotent on the graph.  An ingest of a source that has
\* not changed since its last ingest leaves the number of entity nodes, of
\* all nodes and of relationships as they were, and the project's one
\* Project node carries the page count of this ingest.
C3_ReingestIdempotent ==
    [][\A path \in Sources :
          (IngestStep(path) /\ Unchanged(path)) =>
              /\ Len(EntityNodes(nodes')) = Len(EntityNodes(nodes))
              /\ Len(nodes') = Len(nodes)
              /\ Len(rels') = Len(rels)
              /\ PageCounts(nodes', ExtId(path)) = {Len(source[path])}]_vars

\* An unchanged source was ingested again, after the other source was
\* ingested too.
C3_Witness ==
    /\ gret.reingest
    /\ \A p \in Sources : pageStore[ExtId(p)] # <<>>

\* The PhoneNumber entities of a stored page.
PhonesOf(page) == SelectSeq(extract_entities(page), LAMBDA e : e.label = "PhoneNumber")

StoredPages == UNION {{pageStore[e][i] : i \in DOMAIN pageStore[e]} : e \in DOMAIN pageStore}

\* C4: the graph holds at most one node per (label, key_field, key_value),
\* and for every stored page and every phone number it mentions there is
\* exactly one PhoneNumber node with that normalized number and exactly one
\* MENTIONED_IN edge from it to the page.
C4_OneNodePerKey ==
    /\ \A i, j \in DOMAIN nodes :
          (i # j /\ nodes[i].label = nodes[j].label) =>
              ~Matches(nodes[j], nodes[i].label, KeyField(nodes[i].label),
                       nodes[i].props[KeyField(nodes[i].label)])
    /\ \A pg \in StoredPages : \A k \in DOMAIN PhonesOf(pg) :
          /\ Cardinality({i \in DOMAIN nodes :
                 Matches(nodes[i], "PhoneNumber", "number", PhonesOf(pg)[k].key_value)}) = 1
          /\ Cardinality({i \in DOMAIN rels :
                 rels[i] = Rel("PhoneNumber", "number", PhonesOf(pg)[k].key_value,
                               "MENTIONED_IN", "Page", "page_id", pg.page_id)}) = 1

\* Two pages of one extraction and a page of another extraction mention the
\* same normalized number, written differently.
C4_Witness ==
    \E p, q, r \in StoredPages :
        /\ p.extraction_id = q.extraction_id /\ p.page_id # q.page_id
        /\ r.extraction_id # p.extraction_id
        /\ \E a \in DOMAIN PhonesOf(p), b \in DOMAIN PhonesOf(q), c \in DOMAIN PhonesOf(r) :
              /\ PhonesOf(p)[a].key_value = PhonesOf(q)[b].key_value
              /\ PhonesOf(p)[a].key_value = PhonesOf(r)[c].key_value
              /\ PhonesOf(p)[a].props.raw # PhonesOf(q)[b].props.raw

\* A node tagged with a project other than pid.
OfOtherProject(n, pid) == "project_id" \in DOMAIN n.props /\ n.props.project_id # pid

\* C5 (as stated): an ingest of a source changes only the nodes of that
\* source's project.  Every node tagged with another project is in the
\* graph after the ingest with the same properties and tag, and so is every
\* relationship between two such nodes.
C5_Original ==
    [][\A path \in Sources :
          IngestStep(path) =>
              /\ \A i \in DOMAIN nodes :
                    OfOtherProject(nodes[i], ExtId(path)) =>
                        \E j \in DOMAIN nodes' : nodes'[j] = nodes[i]
              /\ \A k \in DOMAIN rels :
                    (\E i, j \in DOMAIN nodes :
                        /\ OfOtherProject(nodes[i], ExtId(path))
                        /\ OfOtherProject(nodes[j], ExtId(path))
                        /\ Matches(nodes[i], rels[k].src_label, rels[k].src_key, rels[k].src_val)
                        /\ Matches(nodes[j], rels[k].dst_label, rels[k].dst_key, rels[k].dst_val))
                    => \E m \in DOMAIN rels' : rels'[m] = rels[k]]_vars

\* C6 (as stated): every Page node and every entity node carries a
\* project_id tag and has a PART_OF edge to the Project node with that
\* project_id.
C6_Original ==
    \A i \in DOMAIN nodes :
        nodes[i].label # "Project" =>
            /\ "project_id" \in DOMAIN nodes[i].props
            /\ \E j \in DOMAIN nodes :
                  Matches(nodes[j], "Project", "project_id", nodes[i].props.project_id)
            /\ \E k \in DOMAIN rels :
                  rels[k] = Rel(nodes[i].label, KeyField(nodes[i].label),
                                nodes[i].props[KeyField(nodes[i].label)], "PART_OF",
                                "Project", "project_id", nodes[i].props.project_id)

(***************************************************************************)
(* Claims about the query orchestrator (SpecQuery)                         *)
(***************************************************************************)

\* The calls the last query made on the primary backend.
GenerateCalls == SelectSeq(llmCalls, LAMBDA c : c.fn = "generate")

\* C10: on the cache-miss path, synthesis takes exactly one of three
\* outcomes.  With no vector hit and no graph context the answer is the
\* fixed no-records text and no model is called; otherwise, when the model
\* is skipped, the answer is the assembled context verbatim and no model is
\* called; otherwise generate is called exactly once, with the query and the
\* assembled context, and no other model call is made.
C10_SynthesizeOutcomes ==
    qr.miss =>
        IF qr.vector_hits = <<>> /\ qr.graph_context = <<>>
        THEN qr.answer = NoRecordsText /\ llmCalls = <<>> /\ ~qr.raised
        ELSE IF qr.skip_llm
        THEN qr.answer = qr.rag_context /\ llmCalls = <<>> /\ ~qr.raised
        ELSE /\ Len(GenerateCalls) = 1
             /\ llmCalls = GenerateCalls
             /\ llmCalls[1].text = qr.query
             /\ llmCalls[1].context = qr.rag_context

\* A cache-miss query without evidence, with the model requested.
C10_Witness ==
    qr.miss /\ ~qr.skip_llm /\ qr.vector_hits = <<>> /\ qr.graph_context = <<>>

\* The last query was answered from the cache.
CacheHit == queries > 0 /\ ~qr.miss /\ ret.op = "lookup" /\ ret.result # None

\* C11 as claimed: a cache hit ends without retrieval and without a call of
\* the primary backend; when the raw context is requested or the secondary
\* backend is not available the answer is the stored response verbatim with
\* source "cache"; the answer differs from the stored response only when the
\* secondary backend answered.
C11_Original ==
    (CacheHit /\ ~qr.raised) =>
        /\ \A i \in DOMAIN steps : steps[i].step \in {"cache_lookup", "reframe"}
        /\ GenerateCalls = <<>>
        /\ (qr.skip_llm \/ (llmCalls # <<>> /\ llmCalls[1].outcome = "unavailable"))
              => (qr.answer = ret.result[1].response /\ qr.source = "cache")
        /\ (qr.answer # ret.result[1].response)
              => (llmCalls # <<>> /\ llmCalls[1].outcome = "text")

\* The last query called the primary backend and the call raised.
GenerationFailed ==
    \E i \in DOMAIN steps : steps[i] = [step |-> "generation", ok |-> FALSE]

\* C12: a query whose call of the primary generative backend raises ends
\* with the exception (no answer is returned), and the entries of the
\* response cache, on Redis and in the in-process table, are the ones from
\* before the query.
C12_GenerationFailure ==
    [][(queries' # queries /\ GenerationFailed') =>
            /\ qr'.raised
            /\ qr'.answer = <<>>
            /\ UNCHANGED <<redis, fallback>>]_vars

\* A query went through the cache lookup and missed, found evidence, and
\* generate raised, while the cache held an entry of an earlier query.
C12_Witness ==
    /\ GenerationFailed
    /\ steps[1] = [step |-> "cache_lookup", ok |-> TRUE]
    /\ \E k \in DOMAIN fallback : fallback[k] # None \/ redis[k] # None

\* The named step of the last query ended in an exception.
StepFailed(name) == \E i \in DOMAIN steps : steps[i] = [step |-> name, ok |-> FALSE]

\* The steps that read the vector index (through the embedder) and the
\* graph store.
RetrievalSteps == {"vector_retrieval", "graph_expansion", "keyword_search"}

RetrievalFailed == \E n \in RetrievalSteps : StepFailed(n)

\* The entries of a graph context that came from the graph store.
GraphEntries(graph_context) ==
    SelectSeq(graph_context, LAMBDA c : c.entity.label # "_HydratedPages")

\* The entries the graph step of the last query gets when no read raises.
FullEntries ==
    IF StepFailed("graph_expansion")
    THEN GraphExpansion(RetrieverHits("one"), "some")
    ELSE KeywordSearch(qr.query, "some")

IsProperPrefix(a, b) == Len(a) < Len(b) /\ a = SubSeq(b, 1, Len(a))

\* What C13 says of every query in which a retrieval step failed, but for
\* the evidence of the failing source: the exception that ends the query, if
\* any, is not the retrieval step's, and a query that returns with no
\* evidence returns the no-records answer.
DegradesSilently ==
    RetrievalFailed =>
        /\ qr.raised => /\ ~steps[Len(steps)].ok
                         /\ steps[Len(steps)].step \notin RetrievalSteps
        /\ (~qr.raised /\ qr.vector_hits = <<>> /\ qr.graph_context = <<>>)
              => (qr.answer = NoRecordsText /\ qr.source = "system")

NoRetry == \A i, j \in DOMAIN steps : steps[i].step = steps[j].step => i = j

\* Every step of the last query that ended in an exception is one of
\* `swallowed` exactly if the query went on after it; the exception of any
\* other step (a cache call among them) is the one that ended the query, and
\* an exception raised by a generative backend ended it.
FailuresSwallowed(swallowed) ==
    /\ \A i \in DOMAIN steps :
          ~steps[i].ok =>
              (steps[i].step \in swallowed <=> ~(qr.raised /\ i = Len(steps)))
    /\ \A i \in DOMAIN llmCalls : llmCalls[i].outcome = "raise" => qr.raised

\* C14 as claimed: no step is retried, and the failures of vector retrieval
\* and of the keyword graph search are swallowed while the failure of every
\* other step (cache lookup, graph expansion, page hydration, generation,
\* cache store) propagates to the caller.
C14_Original ==
    queries > 0 =>
        /\ NoRetry
        /\ FailuresSwallowed({"vector_retrieval", "keyword_search"})

\* C14, amended: no step is retried; the failures of vector retrieval, graph
\* expansion, keyword graph search and page hydration are swallowed, and
\* the failure of every other step (cache lookup, reframing, generation,
\* cache store) propagates to the caller.
C14_FourSwallowed ==
    queries > 0 =>
        /\ NoRetry
        /\ FailuresSwallowed({"vector_retrieval", "graph_expansion",
                              "keyword_search", "page_hydration"})

\* Graph expansion and page hydration raised and the query went on to
\* generate, whose exception ended it.
C14_Witness ==
    /\ StepFailed("graph_expansion")
    /\ StepFailed("page_hydration")
    /\ StepFailed("generation")
    /\ qr.raised

\* The named step of the last query ran and returned.
StepDone(name) == \E i \in DOMAIN steps : steps[i] = [step |-> name, ok |-> TRUE]

\* A node of the graph with at least one relationship.
Related(n) == \E i \in DOMAIN rels : Touches(rels[i], n)

\* The text holds a word of the name of a node that has a relationship.
NamesEntity(text) ==
    \E k \in DOMAIN nodes, i \in DOMAIN text :
        Related(nodes[k]) /\ NodeContains(nodes[k], Lower(text[i]))

\* One of the first three terms of the text is in the name of a node that
\* has a relationship.
ProbesEntity(text) ==
    \E k \in DOMAIN nodes, i \in DOMAIN QueryTerms(text) :
        Related(nodes[k]) /\ NodeContains(nodes[k], QueryTerms(text)[i])

\* The keyword search runs only after a retrieval with zero hits, and its
\* reads are at most three, each for a term of three letters or more that
\* is no stop word.
FallbackRule ==
    /\ (StepDone("keyword_search") \/ StepFailed("keyword_search")) => qr.vector_hits = <<>>
    /\ \A i \in DOMAIN reads :
          reads[i].fn = "run_read" =>
              /\ Len(reads) <= 3
              /\ Len(reads[i].arg) >= 3
              /\ reads[i].arg \notin QueryStop \cup {"?"}

\* C15 as claimed: after a retrieval with zero hits and with graph expansion
\* requested, a query whose text names an entity that has a relationship
\* returns non-empty graph_context through the keyword search, which runs
\* only on zero hits and probes at most 3 terms.
C15_Original ==
    [][queries' # queries =>
          /\ FallbackRule'
          /\ (StepDone("keyword_search")' /\ NamesEntity(qr.query)')
                => qr'.graph_context # <<>>]_vars

\* C15, amended: a query that reaches retrieval, gets zero hits, has graph
\* expansion requested and whose keyword search returns, returns non-empty
\* graph_context exactly if one of the first three terms of its text is in
\* the name of a node that has a relationship; the keyword search runs only
\* on zero hits and probes at most 3 terms.
C15_KeywordFallback ==
    [][queries' # queries =>
          /\ FallbackRule'
          /\ StepDone("keyword_search")'
                => (ProbesEntity(qr.query)' <=> qr'.graph_context # <<>>)]_vars

\* After an ingest, a query that skips or misses the cache and gets zero hits
\* finds the entity its text names with the keyword search.
C15_Witness ==
    /\ nodes # <<>>
    /\ StepDone("keyword_search")
    /\ Len(reads) = 2
    /\ qr.graph_context # <<>>

\* The entry of the prompt's keyword set was stored and has been neither
\* hit nor stored again for the TTL.
Expired(prompt) ==
    /\ mon[KeywordSet(prompt)] # None
    /\ mon[KeywordSet(prompt)][1].age >= TtlTicks

\* C16 as claimed: on either backend, a lookup made when the entry has been
\* neither hit nor stored again for the TTL finds it absent, and a lookup
\* that hits on Redis leaves the entry with the full TTL.
C16_Original ==
    [][(cacheOps' # cacheOps /\ ret'.op = "lookup") =>
          /\ Expired(ret'.prompt) => ret'.result = None
          /\ (useRedis /\ ret'.result # None)
                => redis'[KeyOf(ret'.prompt)][1].ttl = TtlTicks]_vars

\* C17 as claimed: no cache call ends in an exception of the backing store,
\* and no query ends in the exception of one of its cache steps.
C17_Original ==
    /\ ret.op \notin {"lookup_raised", "store_raised"}
    /\ qr.raised => steps[Len(steps)].step \notin {"cache_lookup", "cache_store"}

\* The pages of the last ingest.
LastPages == pageStore[ExtId(gret.path)]

\* The node item is in the graph.
NodeWritten(item) ==
    \E k \in DOMAIN nodes : Matches(nodes[k], item.label, item.key_field, item.key_value)

\* The Page node, the entities and the relationships of the page are in the
\* graph.
PageWritten(pg) ==
    /\ \A i \in DOMAIN PageNodeItems(<<pg>>, pg.extraction_id) :
          NodeWritten(PageNodeItems(<<pg>>, pg.extraction_id)[i])
    /\ \A i \in DOMAIN PageRels(<<pg>>, pg.extraction_id) :
          \E k \in DOMAIN rels : rels[k] = PageRels(<<pg>>, pg.extraction_id)[i]

\* C18 as claimed: after an ingest in which entity extraction failed for one
\* page, the entities and relationships of every other page of the ingest
\* are in the graph, and the ingest returned its result.
C18_Original ==
    (gret.n > 0 /\ ires.fault.kind = "extract") =>
        \A i \in DOMAIN LastPages : i # ires.fault.at => PageWritten(LastPages[i])

\* The elements of a sequence.
Elements(seq) == {seq[i] : i \in DOMAIN seq}

\* The graph-store writes of populate_graph that can fail.
WriteFaults == {"purge", "nodes", "rels"}

\* The failure of the ingest is in IngestResult.errors and the vector-index
\* count is the number of pages indexed.
Recorded(res, pgs) ==
    /\ "Graph error" \in Elements(res.errors)
    /\ res.vector_indexed = Len(pgs)

\* The elements of a sequence at the positions before `at`.
Earlier(seq, at) == {seq[i] : i \in {j \in DOMAIN seq : j < at}}

\* Between the graph `before` and the graph `after` nothing is written that a
\* step after the failed write would have written: no node of the failed
\* batch or of a later one, no relationship of the failed group or of a
\* later one.
NoLaterStep(f, pgs, before, after) ==
    LET node_done == Earlier(NodeBatches(NodeItems(pgs)), f.at)
        rel_done == Earlier(RelBatches(PageRels(pgs, pgs[1].extraction_id)), f.at)
    IN  CASE f.kind = "purge" ->
                /\ Elements(after.nodes) \subseteq Elements(before.nodes)
                /\ Elements(after.rels) \subseteq Elements(before.rels)
          [] f.kind = "nodes" ->
                /\ \A n \in Elements(after.nodes) \ Elements(before.nodes) :
                      n.label \in node_done
                /\ Elements(after.rels) \subseteq Elements(before.rels)
          [] f.kind = "rels" ->
                \A r \in Elements(after.rels) \ Elements(before.rels) :
                    RelBatchOf(r) \in rel_done
          [] OTHER -> TRUE

\* The node item is in the graph `after`.
NodeIn(item, after) ==
    \E k \in DOMAIN after.nodes :
        Matches(after.nodes[k], item.label, item.key_field, item.key_value)

\* The batches written before the failed write are in the graph `after`.
EarlierStay(f, pgs, after) ==
    LET items == NodeItems(pgs)
        all_rels == PageRels(pgs, pgs[1].extraction_id)
        node_done == Earlier(NodeBatches(items), f.at)
        rel_done == Earlier(RelBatches(all_rels), f.at)
    IN  CASE f.kind = "nodes" ->
                \A i \in DOMAIN items : items[i].label \in node_done => NodeIn(items[i], after)
          [] f.kind = "rels" ->
                /\ \A i \in DOMAIN items : NodeIn(items[i], after)
                /\ \A i \in DOMAIN all_rels :
                      RelBatchOf(all_rels[i]) \in rel_done =>
                          all_rels[i] \in Elements(after.rels)
          [] OTHER -> TRUE

\* The graph store.
Graph == [nodes |-> nodes, rels |-> rels]

\* The step stops at the failed write: nothing later is written, what was
\* written stays, the failure is recorded.
Aborted ==
    /\ Recorded(ires', LastPages')
    /\ NoLaterStep(ires'.fault, LastPages', Graph, Graph')
    /\ EarlierStay(ires'.fault, LastPages', Graph')

\* Every page of the last ingest is in the graph.
AllWritten == \A i \in DOMAIN LastPages : PageWritten(LastPages[i])

\* This step is an ingest in which a graph-store write of one of these kinds
\* failed.
WriteFailedIn(kinds) == gret'.n # gret.n /\ ires'.fault.kind \in kinds

\* C19 as claimed: when a purge delete, a node batch or a relationship batch
\* fails, no later graph-population step of the ingest runs, the batches
\* already written stay, the failure is in IngestResult.errors, and ingest
\* returns with the vector-index count unaffected.
C19_Original ==
    [][WriteFailedIn(WriteFaults) => Aborted]_vars

\* C19 amended: that holds when a node batch or a relationship batch fails.
\* A failing purge delete is logged and swallowed inside populate_graph:
\* the whole population still runs, every page of the ingest is written, the
\* counts are returned and nothing is recorded in IngestResult.errors.
C19_WriteFailure ==
    [][/\ WriteFailedIn({"nodes", "rels"}) => Aborted
       /\ WriteFailedIn({"purge"}) =>
              /\ ires'.errors = <<>>
              /\ ires'.vector_indexed = Len(LastPages')
              /\ ires'.graph_entities = CountEntities(LastPages')
              /\ AllWritten']_vars

\* The write of the Page batch failed in the last ingest: the Project node,
\* written by the batch before it, is in the graph, no Page node of the
\* ingest is, and the failure is recorded.
C19_Witness ==
    /\ gret.n > 0
    /\ ires.fault = [kind |-> "nodes", at |-> 2]
    /\ NodeWritten(NodeItems(LastPages)[1])
    /\ ~NodeWritten(NodeItems(LastPages)[2])
    /\ Recorded(ires, LastPages)

\* The page ids of the other project's stored pages.
OtherPageIds == Elements(PageIds(pageStore[ExtId(Other)]))

\* The nodes tagged with the project, in creation order.
NodesOf(ns, pid) ==
    SelectSeq(ns, LAMBDA n : "project_id" \in DOMAIN n.props /\ n.props.project_id = pid)

\* The query returned every page of the other project among its hits, as it
\* does when it runs before or after the ingest (the index holds fewer than
\* k rows).
OtherReturned ==
    qry.pc = "done" =>
        OtherPageIds \subseteq {h.page_id : h \in Elements(qry.vector_hits)}

\* After the ingest the other project's nodes are the ones its own ingest
\* wrote.
OtherKept ==
    ing.pc = "done" =>
        NodesOf(nodes, ExtId(Other))
            = NodesOf(populate_graph([nodes |-> <<>>, rels |-> <<>>],
                                     pageStore[ExtId(Other)]).nodes, ExtId(Other))

\* C20 as claimed: with an ingest of one project in progress and no lock,
\* under every interleaving of its store operations with a query's reads the
\* query returns the other project's data as it would before or after the
\* ingest, and the other project's nodes are the same after the ingest as
\* before.
C20_Original == OtherReturned /\ OtherKept

\* The summary is the one of the context step 4 builds for the text from
\* the stores as they are, with the retriever answering vec.
SummaryNow(summary, text, vec) ==
    \E hits \in {RetrieverHits(vec)} :
    \E found \in {IF hits # <<>> THEN GraphExpansion(hits, FromStore)
                  ELSE KeywordSearch(text, FromStore)} :
    \E graph_context \in {found \o Hydrated(found, FromStore)} :
        summary = Summary(format_rag_context(VectorHits(hits), graph_context))

\* The last query ran with the default flags for the cache and returned.
DefaultQuery == queries > 0 /\ ~qr.raised /\ steps # <<>> /\ steps[1].step = "cache_lookup"

\* The entry is one computed from a context the stores give now.
EntryIsCurrent(entry, text) ==
    \E vec \in {"none", "one"} : SummaryNow(entry.rag_context_summary, text, vec)

\* This step is a query that comes after a completed ingest, runs with the
\* default flags and is served from the cache.
HitAfterIngest == queries' # queries /\ gret.n > 0 /\ DefaultQuery' /\ ~qr'.miss

\* C21 as claimed: a query with default flags that runs after an ingest has
\* completed returns an answer derived from the stores as they are after the
\* ingest, never one computed before it: when it is served from the cache,
\* the entry was computed from the stores as they are (a query leaves the
\* stores as they were).
C21_Original ==
    [][HitAfterIngest =>
          \E entry \in {Cached(qr.query)'} :
              entry # None /\ EntryIsCurrent(entry[1], qr'.query)]_vars

\* This step is a delete_project call.
DeleteStep == dret'.n # dret.n

\* C22 as claimed: once a project is deleted none of its pages is left in the
\* page store or in the vector index (so that no later query can return one
\* as a hit or as evidence).
C22_Original ==
    [][DeleteStep =>
          /\ pageStore'[dret'.project_id] = <<>>
          /\ Elements(faiss'.page_ids)
                 \cap Elements(PageIds(pageStore[dret'.project_id])) = {}]_vars

\* What the population of the project's stored pages wrote is still there
\* after the step: every node and relationship of it that the graph held.
ProjectKept(project_id) ==
    LET pgs == pageStore[project_id]
        items == NodeItems(pgs)
        all_rels == PageRels(pgs, project_id)
    IN  pgs # <<>> =>
            /\ \A i \in DOMAIN items : NodeIn(items[i], Graph) => NodeIn(items[i], Graph')
            /\ \A i \in DOMAIN all_rels :
                  all_rels[i] \in Elements(rels) => all_rels[i] \in Elements(rels')
            /\ pageStore'[project_id] = pgs

\* C25 as claimed: delete_project(P) removes the Project node of P and leaves
\* every other project's pages, entities and relationships as they were,
\* also when the two projects hold entities of the same natural key.
C25_Original ==
    [][DeleteStep =>
          /\ ~NodeIn(ProjectItem(dret'.project_id, <<>>, <<>>, 0), Graph')
          /\ \A path \in Sources :
                ExtId(path) # dret'.project_id => ProjectKept(ExtId(path))]_vars

(***************************************************************************)
(* Extraction of the contact and the message page                          *)
(***************************************************************************)

\* The extracted entities of the label.
Extracted(label) == SelectSeq(xret.entities, LAMBDA e : e.label = label)

\* The relationships of the type inferred for the page.
Inferred(rel_type) == SelectSeq(xret.relationships, LAMBDA r : r.rel_type = rel_type)

\* The entity has a MENTIONED_IN relationship to the page extracted.
MentionedIn(e) ==
    \E i \in DOMAIN xret.relationships :
        LET r == xret.relationships[i]
        IN  /\ r.rel_type = "MENTIONED_IN"
            /\ r.src_label = e.label /\ r.src_key = e.key_field /\ r.src_val = e.key_value
            /\ r.dst_label = "Page" /\ r.dst_val = xpage.page_id

\* An entity of the label with the property is extracted and mentioned in
\* the page.
Yields(label, field, value) ==
    \E i \in DOMAIN xret.entities :
        LET e == xret.entities[i]
        IN  /\ e.label = label
            /\ (e.props @@ (e.key_field :> e.key_value))[field] = value
            /\ MentionedIn(e)

\* The contact page of the scenario yields the Person and the PhoneNumber,
\* the message page the URL, each mentioned in its page.
ScenarioMentions ==
    /\ (xret.done /\ xpage = ContactPage) =>
           /\ Yields("Person", "name", "Alice Smith")
           /\ Yields("PhoneNumber", "raw", "+1-555-0100")
    /\ (xret.done /\ xpage = MessagePage) =>
           Yields("URL", "address", "https://example.com/docs")

\* C23 as claimed: in the scenario of one contact record and one message
\* from Alice to Bob with a URL, the message page resolves exactly one
\* Person and no MESSAGED relationship is inferred; the Person, the
\* PhoneNumber and the URL are each mentioned in their page.
C23_Original ==
    /\ ScenarioMentions
    /\ (xret.done /\ xpage = MessagePage) =>
           /\ Len(Extracted("Person")) = 1
           /\ Inferred("MESSAGED") = <<>>

\* C23 amended: the message page resolves two Persons, the sender Alice and
\* the recipient Bob, and one MESSAGED relationship from the first to the
\* second is inferred; the Person, the PhoneNumber and the URL are each
\* mentioned in their page.
C23_Amended ==
    /\ ScenarioMentions
    /\ (xret.done /\ xpage = MessagePage) =>
           /\ Len(Extracted("Person")) = 2
           /\ [i \in 1..2 |-> Extracted("Person")[i].props.name] = <<"Alice", "Bob">>
           /\ Len(Inferred("MESSAGED")) = 1
           /\ Inferred("MESSAGED")[1].src_val = Uid(<<"person", "alice">>)
           /\ Inferred("MESSAGED")[1].dst_val = Uid(<<"person", "bob">>)

\* The message page of the scenario has been extracted.
C23_Witness ==
    /\ xret.done
    /\ xpage = MessagePage
    /\ Len(Inferred("MESSAGED")) = 1

\* The values of the lines of the page that carry the prefix.
Labeled(prefix) ==
    LET lines == SelectSeq(xpage.body, LAMBDA line : line.prefix = prefix)
    IN  [i \in DOMAIN lines |-> lines[i].value]

\* The numbers of the Phone(s): lines of the page.
PhoneNumbers == UNION {Elements(Parts(v)) : v \in Elements(Labeled("Phone(s):"))}

\* Every labeled item of the page but its phone numbers has its entity, and
\* every entity is mentioned in the page.
ItemsYielded ==
    /\ xpage.artifact_type = "contact" =>
           /\ \A v \in Elements(Labeled("Contact:")) : v # "" => Yields("Person", "name", v)
           /\ \A v \in Elements(Labeled("Org:")) : Yields("Organization", "name", v)
    /\ \A v \in Elements(Labeled("Email(s):")) :
           \A a \in Elements(EmailsIn(v)) : Yields("EmailAddress", "address", LowerName(a))
    /\ \A v \in Elements(Labeled("Body:")) :
           \A u \in Elements(UrlsIn(v)) : Yields("URL", "address", u)
    /\ xpage.artifact_type = "message" =>
           \A v \in Elements(Labeled("App:")) : Yields("App", "name", v)
    /\ \A i \in DOMAIN xret.entities : MentionedIn(xret.entities[i])

\* C24 as claimed: extract_entities yields an entity of the matching label
\* for each labeled item of the page (a Person for a contact record with a
\* name, a PhoneNumber for every phone number, a lowercased EmailAddress, an
\* Organization, a URL, an App for a message's App line), and every entity
\* gets a MENTIONED_IN relationship to the page.
C24_Original ==
    xret.done =>
        /\ ItemsYielded
        /\ \A number \in PhoneNumbers : Yields("PhoneNumber", "raw", number)

\* C24 amended: the same, with a PhoneNumber for every phone number that
\* _PHONE_RE matches: an optional plus sign, then at least nine digits,
\* dashes and blanks that begin and end with a digit.  A shorter number
\* yields no PhoneNumber.
C24_Amended ==
    xret.done =>
        /\ ItemsYielded
        /\ \A number \in PhoneNumbers :
               Yields("PhoneNumber", "raw", number) <=> PHONE_RE(PhoneText(number))

\* A contact page with a number the pattern matches and a shorter one has
\* been extracted.
C24_Witness ==
    /\ xret.done
    /\ xpage.body = <<LinePhone1, LinePhoneShort>>
    /\ Len(Extracted("PhoneNumber")) = 1

(***************************************************************************)
(* Rate limiting and password reset                                        *)
(***************************************************************************)

\* The calls of the endpoint let through from the IP in the span of
\* `window` seconds that ends with the one let through at time t.
InSpan(ip, name, window, t) ==
    {i \in DOMAIN admitted[ip][name] :
        admitted[ip][name][i] <= t /\ t - admitted[ip][name][i] < window}

\* C26 as claimed: for each endpoint with its own limit, at most
\* max_attempts calls of that endpoint from one IP are let through within
\* any span of window seconds, whatever other endpoints the IP calls in
\* between (a call rejected with 429 is not recorded).
C26_Original ==
    \A ip \in Ips, e \in Endpoints :
        \A i \in DOMAIN admitted[ip][e.name] :
            Cardinality(InSpan(ip, e.name, e.window, admitted[ip][e.name][i]))
                <= e.max_attempts

\* The calls with the token that returned True.
Succeeded(token) ==
    {i \in DOMAIN resetLog :
        /\ resetLog[i].call = "reset_password"
        /\ resetLog[i].token = token
        /\ resetLog[i].returned}

\* C27 as claimed: a reset token changes a password at most once; once a
\* reset_password call with the token has returned True, no other call
\* with it returns True, also when the steps of the calls interleave.
C27_Original ==
    \A token \in 1..MaxTokens : Cardinality(Succeeded(token)) <= 1

(***************************************************************************)
(* The purge of populate_graph, the unsynchronised index, the index after  *)
(* re-ingests                                                              *)
(***************************************************************************)

\* The node is one of those the last population wrote.
WrittenByLast(n) ==
    LET items == NodeItems(LastPages)
    IN  \E i \in DOMAIN items :
            Matches(n, items[i].label, items[i].key_field, items[i].key_value)

\* C28 as claimed: populate_graph first deletes all nodes tagged with the
\* project_id, content nodes of every label and then the Project node, so
\* that after a successful population every node tagged with the project_id
\* was written by that population and none is left from an earlier ingest.
C28_Original ==
    gret.n > 0 =>
        \A i \in DOMAIN nodes :
            ("project_id" \in DOMAIN nodes[i].props
                /\ nodes[i].props.project_id = ExtId(gret.path))
            => WrittenByLast(nodes[i])

\* C29 as claimed: with one thread in FAISSStore.add and others in search,
\* whenever a search reads the store the id list has one entry for every
\* vector of the index, and no search ends in an error.
C29_Original ==
    /\ qry.pc = "vector" => Len(faiss.page_ids) = Len(faiss.index)
    /\ "vector_retrieval" \notin Elements(qry.swallowed)

\* The ids of the pages the page store holds.
StoredPageIds == {pg.page_id : pg \in StoredPages}

\* C30 as claimed: after any sequence of completed ingests, re-ingests
\* included, the index holds exactly one vector per page of the page store:
\* every id of its id list is that of a stored page, and no page has two.
C30_Original ==
    /\ Elements(faiss.page_ids) = StoredPageIds
    /\ Len(faiss.page_ids) = Cardinality(StoredPageIds)
    /\ Len(faiss.index) = Len(faiss.page_ids)

=============================================================================
